---------------------------- MODULE Spec2Model ----------------------------
(***************************************************************************)
(* A model of flac-tracksplit: the extended-UTF8 integer codec, the FLAC   *)
(* frame rewriter OffsetFrame::process, and the track splitter             *)
(* split_one_file with Track::from_tags, Track::pathname,                  *)
(* Track::write_audio and Track::write_metadata                            *)
(* (src/flac-tracksplit/src/lib.rs); the split subcommand of               *)
(* src/flac-tracksplit/src/main.rs; and the metadata writer of             *)
(* src/flac-writer/src.                                                    *)
(*                                                                         *)
(* A u64 is kept at its full width as four 16-bit words, most significant  *)
(* first, because the model checker's integers are narrower than 64 bits.  *)
(* A byte is a number in 0..255 and a buffer is a sequence of bytes.       *)
(***************************************************************************)
EXTENDS Integers, Sequences, FiniteSets, TLC

VARIABLES
    debug_assertions,   \* the build profile: TRUE for a debug build, FALSE for release
    codec_pc,           \* codec driver: "input", "encoded", "decoded"
    codec_input,        \* the u64 handed to utf8_encode_be_u64
    codec_encoded,      \* the result of utf8_encode_be_u64
    codec_decoded,      \* the result of utf8_decode_be_u64 on the encoded bytes
    frame_pc,           \* rewriter driver: "ready", "failed" (Err), "panicked", "idle"
    frame,              \* the OffsetFrame: initial_offset and samples_processed
    frame_prev,         \* the OffsetFrame as it was before the latest process call
    packet,             \* the bytes of the packet handed to the latest process call
    updated_buf,        \* the result of the latest process call
    frame_log,          \* the packets this OffsetFrame processed with success, in order
    info,               \* the source's STREAMINFO
    cues,               \* the source's cue list: records of index and start_ts
    tags,               \* the source's tags (the per-disc Vorbis comments)
    visuals,            \* the source's visuals
    metadata_padding,   \* the metadata_padding argument of split_one_file
    reader,             \* the packets the FlacReader will deliver, in source order
    reader_pos,         \* how many packets next_packet has delivered
    pc,                 \* position in split_one_file
    cue_pos,            \* how many cue entries cue_iter has yielded
    track,              \* the Track being written
    audio_buffer,       \* the reused in-memory audio buffer
    last_end,           \* write_audio's last_end
    sample_count,       \* the value write_audio returned for the current track
    audio_returns,      \* every value write_audio returned, in track order
    files,              \* the output files created, in creation order
    track_paths,        \* split_one_file's track_paths: the pathname of each track pushed
    outcome,            \* how split_one_file ended: "running", "ok", "err", "panic"
    pulled,             \* every packet next_packet delivered: the file being written,
                        \* the track's window, and how the packet fared
    tag_pc,             \* tag driver: "input", "track", "path", "idle"
    tag_source,         \* the tags handed to Track::from_tags
    tag_cue,            \* the cue handed to Track::from_tags
    tag_track,          \* the Track that from_tags returned
    tag_path,           \* the components of the path that pathname returned
    writer_pc,          \* metadata writer driver: "input", "header", "track", "idle"
    writer_info,        \* the StreamInfo handed to write_flac_stream_header
    writer_blocks,      \* the extra blocks handed to write_flac_stream_header
    writer_track,       \* the Track whose write_metadata is called
    writer_padding,     \* the metadata_padding handed to write_metadata
    writer_result,      \* how write_flac_stream_header ended and the bytes it wrote
    writer_prelude,     \* the blocks that Track::write_metadata wrote
    range_pc,           \* split subcommand driver: "input", "done", "idle"
    range_args,         \* from_ms, to_ms and the source's total_samples and sample_rate
    range_result,       \* how the subcommand went on: an error, or the extraction called
    crc_input,          \* the bytes fed to the two CRC engines
    crc_fed,            \* how many of them were fed
    header_crc8,        \* the state of the header CRC-8 engine
    footer_crc16        \* the state of the footer CRC-16 engine

codec_vars == <<codec_pc, codec_input, codec_encoded, codec_decoded>>
frame_vars == <<frame_pc, frame, frame_prev, packet, updated_buf, frame_log>>
source_vars == <<info, cues, tags, visuals, metadata_padding, reader>>
tag_vars == <<tag_pc, tag_source, tag_cue, tag_track, tag_path>>
writer_vars ==
    <<writer_pc, writer_info, writer_blocks, writer_track, writer_padding, writer_result,
      writer_prelude>>
range_vars == <<range_pc, range_args, range_result>>
crc_vars == <<crc_input, crc_fed, header_crc8, footer_crc16>>
other_vars == <<range_vars, crc_vars>>
split_vars ==
    <<reader_pos, pc, cue_pos, track, audio_buffer, last_end, sample_count,
      audio_returns, files, track_paths, outcome, pulled>>

(***************************************************************************)
(* Bounds of the model.                                                    *)
(***************************************************************************)
\* number of bit patterns tried for every effective bit length of a codec input
CodecPatterns == 2
\* number of process calls made on one OffsetFrame
MaxCalls == 2
\* longest subframe section of a source frame, in bytes
MaxSubframeBytes == 2
\* most track entries of a cue list (a lead-out entry may follow them)
MaxCues == 2
\* most packets of a source stream
MaxPackets == 3
\* most visuals of a source
MaxVisuals == 1
\* most tags of a source in the lists that exercise the tag filter
MaxTags == 2
\* most extra blocks handed to write_flac_stream_header
MaxBlocks == 2
\* most bytes of an input of the CRC engines, the check vector apart
MaxCrcBytes == 3

(***************************************************************************)
(* Machine arithmetic.                                                     *)
(***************************************************************************)
Word == 2 ^ 16

\* number of significant bits of a natural number
RECURSIVE BitLen(_)
BitLen(n) == IF n = 0 THEN 0 ELSE 1 + BitLen(n \div 2)

RECURSIVE BitAnd(_, _)
BitAnd(a, b) ==
    IF a = 0 \/ b = 0 THEN 0
    ELSE 2 * BitAnd(a \div 2, b \div 2) + (IF a % 2 = 1 /\ b % 2 = 1 THEN 1 ELSE 0)

RECURSIVE BitOr(_, _)
BitOr(a, b) ==
    IF a = 0 THEN b
    ELSE IF b = 0 THEN a
    ELSE 2 * BitOr(a \div 2, b \div 2) + (IF a % 2 = 1 \/ b % 2 = 1 THEN 1 ELSE 0)

RECURSIVE BitXor(_, _)
BitXor(a, b) ==
    IF a = 0 THEN b
    ELSE IF b = 0 THEN a
    ELSE 2 * BitXor(a \div 2, b \div 2) + (IF a % 2 = b % 2 THEN 0 ELSE 1)

\* the u64 of a small natural number (below 2^31)
U64(n) == <<0, 0, n \div Word, n % Word>>

U64Zero == <<0, 0, 0, 0>>

\* the u64 2^e, for e in 0..63
U64Pow2(e) == [i \in 1..4 |-> IF i = 4 - (e \div 16) THEN 2 ^ (e % 16) ELSE 0]

\* u64::leading_zeros
leading_zeros(x) ==
    IF x[1] # 0 THEN 16 - BitLen(x[1])
    ELSE IF x[2] # 0 THEN 32 - BitLen(x[2])
    ELSE IF x[3] # 0 THEN 48 - BitLen(x[3])
    ELSE 64 - BitLen(x[4])

\* int_conv::Truncate from u64 to u8: the low eight bits
truncate(x) == x[4] % 256

\* x >> 6 on a u64
U64Shr6(x) ==
    [i \in 1..4 |-> (x[i] \div 64) + (IF i = 1 THEN 0 ELSE (x[i - 1] % 64) * 1024)]

\* (x << 6) | b on a u64, for a six-bit b; the bits shifted out at the top are lost
U64Shl6Or(x, b) ==
    [i \in 1..4 |-> ((x[i] % 1024) * 64) + (IF i = 4 THEN b ELSE x[i + 1] \div 1024)]

\* a < b on u64
U64Lt(a, b) ==
    \E i \in 1..4 : a[i] < b[i] /\ \A j \in 1..(i - 1) : a[j] = b[j]

U64Le(a, b) == a = b \/ U64Lt(a, b)

\* a + b on u64: the wrapped sum and whether it overflowed
U64Add(a, b) ==
    LET s4 == a[4] + b[4]
        s3 == a[3] + b[3] + (s4 \div Word)
        s2 == a[2] + b[2] + (s3 \div Word)
        s1 == a[1] + b[1] + (s2 \div Word)
    IN  [value |-> <<s1 % Word, s2 % Word, s3 % Word, s4 % Word>>,
         overflow |-> s1 >= Word]

\* a - b on u64: the wrapped difference and whether it underflowed
U64Sub(a, b) ==
    LET d4 == a[4] - b[4]
        d3 == a[3] - b[3] - (IF d4 < 0 THEN 1 ELSE 0)
        d2 == a[2] - b[2] - (IF d3 < 0 THEN 1 ELSE 0)
        d1 == a[1] - b[1] - (IF d2 < 0 THEN 1 ELSE 0)
    IN  [value |-> <<d1 % Word, d2 % Word, d3 % Word, d4 % Word>>,
         overflow |-> d1 < 0]

\* u8::count_ones, u8::count_zeros, u8::leading_zeros
RECURSIVE count_ones(_)
count_ones(b) == IF b = 0 THEN 0 ELSE (b % 2) + count_ones(b \div 2)

count_zeros(b) == 8 - count_ones(b)

leading_zeros_u8(b) == 8 - BitLen(b)

(***************************************************************************)
(* Results.  A call returns Ok, returns Err, or panics (unreachable!, a    *)
(* failed assertion, an arithmetic overflow in a debug build, a slice      *)
(* index out of range).                                                    *)
(***************************************************************************)
None == [kind |-> "none"]

EncOk(bytes) == [kind |-> "ok", bytes |-> bytes]
EncPanic == [kind |-> "panic", bytes |-> <<>>]

DecOk(value, n, pos) == [kind |-> "ok", value |-> value, n |-> n, pos |-> pos]
DecErr == [kind |-> "err", value |-> U64Zero, n |-> 0, pos |-> 0]

(***************************************************************************)
(* utf8_encode_be_u64                                                      *)
(***************************************************************************)
\* the match on number.leading_zeros(): 0 stands for the one-byte return,
\* -1 for the unreachable!() arm
start_mask_of(lz) ==
    IF lz >= 57 THEN 0
    ELSE IF lz >= 53 THEN 192
    ELSE IF lz >= 48 THEN 224
    ELSE IF lz >= 44 THEN 240
    ELSE IF lz >= 39 THEN 248
    ELSE IF lz >= 34 THEN 252
    ELSE IF lz >= 29 THEN 254
    ELSE -1

\* the while posn > 0 loop: fills val[posn] (0-based posn is index posn + 1)
\* and shifts number right by six bits; yields the final val and number
RECURSIVE encode_loop(_, _, _)
encode_loop(number, val, posn) ==
    IF posn > 0
    THEN encode_loop(U64Shr6(number),
                     [val EXCEPT ![posn + 1] = BitOr(BitAnd(truncate(number), 63), 128)],
                     posn - 1)
    ELSE [number |-> number, val |-> val]

utf8_encode_be_u64(input, debug) ==
    LET lz == leading_zeros(input)
        start_mask == start_mask_of(lz)
    IN  IF start_mask = 0 THEN EncOk(<<truncate(input)>>)
        ELSE IF start_mask = -1 THEN EncPanic
        ELSE
            LET len == count_ones(start_mask)
                room == (count_ones(start_mask) - 1) * 6 + (count_zeros(start_mask) - 1)
                done == encode_loop(input, SubSeq(<<0, 0, 0, 0, 0, 0, 0>>, 1, len), len - 1)
                byte == truncate(done.number)
            IN  IF debug /\ ~(64 - lz <= room) THEN EncPanic
                ELSE IF debug /\ byte \div (2 ^ (count_zeros(start_mask) - 1)) # 0
                THEN EncPanic
                ELSE EncOk([done.val EXCEPT ![1] = BitOr(byte, start_mask)])

(***************************************************************************)
(* utf8_decode_be_u64, reading from buffer buf at position pos (1-based).  *)
(***************************************************************************)
\* the match on the first byte: -1 for the invalid prefixes
decode_mask(b0) ==
    IF b0 >= 192 /\ b0 <= 223 THEN 31
    ELSE IF b0 >= 224 /\ b0 <= 239 THEN 15
    ELSE IF b0 >= 240 /\ b0 <= 247 THEN 7
    ELSE IF b0 >= 248 /\ b0 <= 251 THEN 3
    ELSE IF b0 >= 252 /\ b0 <= 253 THEN 1
    ELSE IF b0 = 254 THEN 0
    ELSE -1

\* the for _i in 2..mask.leading_zeros() loop, left iterations to go
RECURSIVE decode_loop(_, _, _, _)
decode_loop(state, buf, pos, left) ==
    IF left = 0 THEN state
    ELSE decode_loop(U64Shl6Or(state, BitAnd(buf[pos], 63)), buf, pos + 1, left - 1)

utf8_decode_be_u64(buf, pos) ==
    IF pos > Len(buf) THEN DecErr
    ELSE
        LET b0 == buf[pos]
            mask == decode_mask(b0)
        IN  IF b0 <= 127 THEN DecOk(U64(b0), 1, pos + 1)
            ELSE IF mask = -1 THEN DecErr
            ELSE
                LET more == leading_zeros_u8(mask) - 2
                IN  IF pos + more > Len(buf) THEN DecErr
                    ELSE DecOk(decode_loop(U64(BitAnd(b0, mask)), buf, pos + 1, more),
                               leading_zeros_u8(mask) - 1,
                               pos + 1 + more)

(***************************************************************************)
(* The codec driver: one input, encoded, then decoded (test_encoding).     *)
(***************************************************************************)
\* the u64 2^b - 1, for b in 0..64
U64Ones(b) ==
    [i \in 1..4 |->
        LET lo == 16 * (4 - i)
        IN  IF b >= lo + 16 THEN Word - 1
            ELSE IF b <= lo THEN 0
            ELSE 2 ^ (b - lo) - 1]

\* the k-th bit pattern
PatternWord(k, i) == (k * 23131 + i * 7919 + 4660) % Word

\* a u64 with exactly b effective bits whose lower bits follow pattern k
U64Pattern(b, k) ==
    LET ones == U64Ones(b - 1)
        top == U64Pow2(b - 1)
    IN  [i \in 1..4 |-> BitAnd(PatternWord(k, i), ones[i]) + top[i]]

CodecInputs ==
    {U64Zero}
    \cup {U64Pow2(b - 1) : b \in 1..64}
    \cup {U64Ones(b) : b \in 1..64}
    \cup {U64Pattern(b, k) : b \in 1..64, k \in 1..CodecPatterns}

CodecInit ==
    /\ codec_pc = "input"
    /\ codec_input \in CodecInputs
    /\ codec_encoded = None
    /\ codec_decoded = None

CodecIdle ==
    /\ codec_pc = "idle"
    /\ codec_input = U64Zero
    /\ codec_encoded = None
    /\ codec_decoded = None

Encode ==
    /\ codec_pc = "input"
    /\ codec_encoded' = utf8_encode_be_u64(codec_input, debug_assertions)
    /\ codec_pc' = "encoded"
    /\ UNCHANGED <<codec_input, codec_decoded>>

Decode ==
    /\ codec_pc = "encoded"
    /\ codec_encoded.kind = "ok"
    /\ codec_decoded' = utf8_decode_be_u64(codec_encoded.bytes, 1)
    /\ codec_pc' = "decoded"
    /\ UNCHANGED <<codec_input, codec_encoded>>

(***************************************************************************)
(* CRC engines (symphonia_core::checksum::Crc8Ccitt and Crc16Ansi as       *)
(* OffsetFrame::process creates them): most significant bit first, no      *)
(* reflection, no final XOR.                                               *)
(***************************************************************************)
RECURSIVE crc_shift(_, _, _, _)
crc_shift(crc, top, poly, left) ==
    IF left = 0 THEN crc
    ELSE crc_shift(IF crc >= top
                   THEN BitXor((crc * 2) % (2 * top), poly)
                   ELSE crc * 2,
                   top, poly, left - 1)

\* the lookup tables of the two engines: entry x is x shifted through eight bits
Crc8Table == [x \in 0..255 |-> crc_shift(x, 128, 7, 8)]
Crc16Table == [x \in 0..255 |-> crc_shift(x * 256, 32768, 32773, 8)]

\* Crc8Ccitt::process_byte, polynomial 0x07
crc8_byte(crc, byte) == Crc8Table[BitXor(crc, byte)]

\* a slip: the remainder is not shifted by the byte
crc16_byte_without_shift(crc, byte) ==
    BitXor(crc, Crc16Table[BitXor(crc \div 256, byte)])

\* Crc16Ansi::process_byte, polynomial 0x8005
crc16_byte(crc, byte) ==
    BitXor((crc % 256) * 256, Crc16Table[BitXor(crc \div 256, byte)])

\* process_double_bytes and process_buf_bytes: the bytes one at a time, in order
\* (the test on next makes the checker compute each step before the following one)
RECURSIVE crc8_bytes(_, _, _)
crc8_bytes(crc, bytes, i) ==
    IF i > Len(bytes) THEN crc
    ELSE LET next == crc8_byte(crc, bytes[i])
         IN  IF next \in 0..255 THEN crc8_bytes(next, bytes, i + 1) ELSE next

RECURSIVE crc16_bytes(_, _, _)
crc16_bytes(crc, bytes, i) ==
    IF i > Len(bytes) THEN crc
    ELSE LET next == crc16_byte(crc, bytes[i])
         IN  IF next \in 0..65535 THEN crc16_bytes(next, bytes, i + 1) ELSE next

(***************************************************************************)
(* OffsetFrame                                                             *)
(***************************************************************************)
\* Option<u64>: <<>> is None and <<x>> is Some(x)
NoOffset == <<>>
Some(x) == <<x>>

\* OffsetFrame::default()
OffsetFrameDefault == [initial_offset |-> NoOffset, samples_processed |-> U64Zero]

\* the three locals header_crc, footer_crc and frame_out at the start of process
WriterStart == [frame_out |-> <<>>, header_crc |-> 0, footer_crc |-> 0]

\* a slip: the header bytes are not fed to the footer CRC
emit_header_skips_footer_crc(w, bytes) ==
    [frame_out |-> w.frame_out \o bytes,
     header_crc |-> crc8_bytes(w.header_crc, bytes, 1),
     footer_crc |-> w.footer_crc]

\* bytes copied to frame_out and fed to both CRCs
emit_header(w, bytes) ==
    [frame_out |-> w.frame_out \o bytes,
     header_crc |-> crc8_bytes(w.header_crc, bytes, 1),
     footer_crc |-> crc16_bytes(w.footer_crc, bytes, 1)]

\* bytes copied to frame_out and fed to the footer CRC only
emit_body(w, bytes) ==
    [frame_out |-> w.frame_out \o bytes,
     header_crc |-> w.header_crc,
     footer_crc |-> crc16_bytes(w.footer_crc, bytes, 1)]

\* the footer CRC-16 written big-endian, fed to no CRC
emit_footer(w) ==
    w.frame_out \o <<w.footer_crc \div 256, w.footer_crc % 256>>

ProcOk(self, out) == [kind |-> "ok", out |-> out, self |-> self]
ProcErr(self) == [kind |-> "err", out |-> <<>>, self |-> self]
ProcPanic(self) == [kind |-> "panic", out |-> <<>>, self |-> self]

\* a slip: the codes 8..15 counted from 7, doubling every block size
block_size_step_shifted(buf, pos, block_size_enc) ==
    IF block_size_enc = 6
    THEN IF pos > Len(buf) THEN [kind |-> "err"]
         ELSE [kind |-> "ok", tail |-> <<buf[pos]>>, block_samples |-> U64(buf[pos])]
    ELSE IF block_size_enc = 7
    THEN IF pos + 1 > Len(buf) THEN [kind |-> "err"]
         ELSE [kind |-> "ok", tail |-> <<buf[pos], buf[pos + 1]>>,
               block_samples |-> U64(buf[pos] * 256 + buf[pos + 1])]
    ELSE IF block_size_enc = 1
    THEN [kind |-> "ok", tail |-> <<>>, block_samples |-> U64(192)]
    ELSE IF block_size_enc = 0
    THEN [kind |-> "err"]
    ELSE IF block_size_enc >= 8
    THEN [kind |-> "ok", tail |-> <<>>,
          block_samples |-> U64(256 * 2 ^ (block_size_enc - 7))]
    ELSE [kind |-> "ok", tail |-> <<>>,
          block_samples |-> U64(576 * 2 ^ ((block_size_enc % 8) - 2))]

\* the match on block_size_enc: the tail bytes read and the block samples;
\* kind "err" for a short read and for the reserved code
block_size_step(buf, pos, block_size_enc) ==
    IF block_size_enc = 6
    THEN IF pos > Len(buf) THEN [kind |-> "err"]
         ELSE [kind |-> "ok", tail |-> <<buf[pos]>>, block_samples |-> U64(buf[pos])]
    ELSE IF block_size_enc = 7
    THEN IF pos + 1 > Len(buf) THEN [kind |-> "err"]
         ELSE [kind |-> "ok", tail |-> <<buf[pos], buf[pos + 1]>>,
               block_samples |-> U64(buf[pos] * 256 + buf[pos + 1])]
    ELSE IF block_size_enc = 1
    THEN [kind |-> "ok", tail |-> <<>>, block_samples |-> U64(192)]
    ELSE IF block_size_enc = 0
    THEN [kind |-> "err"]
    ELSE IF block_size_enc >= 8
    THEN [kind |-> "ok", tail |-> <<>>,
          block_samples |-> U64(256 * 2 ^ (block_size_enc - 8))]
    ELSE [kind |-> "ok", tail |-> <<>>,
          block_samples |-> U64(576 * 2 ^ ((block_size_enc % 8) - 2))]

\* a slip: the two bytes of a 16-bit sample-rate tail written low byte first
sample_rate_step_swaps_tail(buf, pos, sample_rate_enc) ==
    IF sample_rate_enc = 12
    THEN IF pos > Len(buf) THEN [kind |-> "err"]
         ELSE [kind |-> "ok", tail |-> <<buf[pos]>>]
    ELSE IF sample_rate_enc \in {13, 14}
    THEN IF pos + 1 > Len(buf) THEN [kind |-> "err"]
         ELSE [kind |-> "ok", tail |-> <<buf[pos + 1], buf[pos]>>]
    ELSE IF sample_rate_enc = 15
    THEN [kind |-> "err"]
    ELSE [kind |-> "ok", tail |-> <<>>]

\* the match on sample_rate_enc: the tail bytes read
sample_rate_step(buf, pos, sample_rate_enc) ==
    IF sample_rate_enc = 12
    THEN IF pos > Len(buf) THEN [kind |-> "err"]
         ELSE [kind |-> "ok", tail |-> <<buf[pos]>>]
    ELSE IF sample_rate_enc \in {13, 14}
    THEN IF pos + 1 > Len(buf) THEN [kind |-> "err"]
         ELSE [kind |-> "ok", tail |-> <<buf[pos], buf[pos + 1]>>]
    ELSE IF sample_rate_enc = 15
    THEN [kind |-> "err"]
    ELSE [kind |-> "ok", tail |-> <<>>]

\* a slip: the whole remainder copied, the source's footer CRC included
process_tail_keeps_footer(self, buf, pos, w, block_samples, debug) ==
    IF pos > Len(buf) THEN ProcErr(self)
    ELSE
        LET w1 == emit_body(w, <<w.header_crc>>)
            remainder == SubSeq(buf, pos + 1, Len(buf))
        IN  IF Len(remainder) < 2 THEN ProcPanic(self)
            ELSE
                LET w2 == emit_body(w1, remainder)
                    sum == U64Add(self.samples_processed, block_samples)
                IN  IF sum.overflow /\ debug THEN ProcPanic(self)
                    ELSE ProcOk([self EXCEPT !.samples_processed = sum.value],
                                emit_footer(w2))

\* from the header CRC byte to the end of process; pos is the position of
\* the source's header CRC byte
process_tail(self, buf, pos, w, block_samples, debug) ==
    IF pos > Len(buf) THEN ProcErr(self)
    ELSE
        LET w1 == emit_body(w, <<w.header_crc>>)
            remainder == SubSeq(buf, pos + 1, Len(buf))
        IN  IF Len(remainder) < 2 THEN ProcPanic(self)
            ELSE
                LET subframes == SubSeq(remainder, 1, Len(remainder) - 2)
                    w2 == emit_body(w1, subframes)
                    sum == U64Add(self.samples_processed, block_samples)
                IN  IF sum.overflow /\ debug THEN ProcPanic(self)
                    ELSE ProcOk([self EXCEPT !.samples_processed = sum.value],
                                emit_footer(w2))

\* from the block-size match to the end of process
process_sizes(self, buf, pos, w, block_size_enc, sample_rate_enc, debug) ==
    LET bs == block_size_step(buf, pos, block_size_enc)
    IN  IF bs.kind = "err" THEN ProcErr(self)
        ELSE
            LET w1 == emit_header(w, bs.tail)
                pos1 == pos + Len(bs.tail)
                sr == sample_rate_step(buf, pos1, sample_rate_enc)
            IN  IF sr.kind = "err" THEN ProcErr(self)
                ELSE process_tail(self, buf, pos1 + Len(sr.tail),
                                  emit_header(w1, sr.tail), bs.block_samples, debug)

\* a slip: the offset is replaced on every frame, not only on the first
record_initial_every_frame(self, orig_sample_offset) ==
    [self EXCEPT !.initial_offset = Some(orig_sample_offset)]

\* if self.initial_offset.is_none() { self.initial_offset.replace(orig_sample_offset) }
record_initial(self, orig_sample_offset) ==
    IF self.initial_offset = NoOffset
    THEN [self EXCEPT !.initial_offset = Some(orig_sample_offset)]
    ELSE self

\* OffsetFrame::process on the packet's bytes buf: the result kind, the
\* returned buffer and the OffsetFrame afterwards
process(self, buf, debug) ==
    IF Len(buf) < 2 THEN ProcErr(self)
    ELSE IF Len(buf) < 4 THEN ProcErr(self)
    ELSE
        LET w1 == emit_header(WriterStart, <<buf[1], buf[2]>>)
            w2 == emit_header(w1, <<buf[3], buf[4]>>)
            block_size_enc == buf[3] \div 16
            sample_rate_enc == buf[3] % 16
            orig == utf8_decode_be_u64(buf, 5)
        IN  IF orig.kind = "err" THEN ProcErr(self)
            ELSE
                LET self1 == record_initial(self, orig.value)
                    sample_offset == U64Sub(orig.value, self1.initial_offset[1])
                    offset_u8 == utf8_encode_be_u64(sample_offset.value, debug)
                IN  IF sample_offset.overflow /\ debug THEN ProcPanic(self1)
                    ELSE IF offset_u8.kind = "panic" THEN ProcPanic(self1)
                    ELSE process_sizes(self1, buf, orig.pos,
                                       emit_header(w2, offset_u8.bytes),
                                       block_size_enc, sample_rate_enc, debug)

(***************************************************************************)
(* Source frames: the packets the demultiplexer hands to process.  A       *)
(* well-formed source frame carries the minimal-length encoding of its     *)
(* sample number and correct CRCs, as a FLAC encoder writes it.            *)
(***************************************************************************)
RECURSIVE U64Shr6Times(_, _)
U64Shr6Times(x, k) == IF k = 0 THEN x ELSE U64Shr6Times(U64Shr6(x), k - 1)

\* the leading-byte prefix of a len-byte extended-UTF8 number
PrefixOf(len) == IF len = 1 THEN 0 ELSE 256 - 2 ^ (8 - len)

\* the len-byte extended-UTF8 field of x (overlong when len is not minimal)
NumberField(x, len) ==
    [i \in 1..len |->
        IF i = 1
        THEN PrefixOf(len)
             + (truncate(U64Shr6Times(x, len - 1)) % (2 ^ (IF len = 1 THEN 7 ELSE 7 - len)))
        ELSE 128 + (truncate(U64Shr6Times(x, len - i)) % 64)]

\* the number of bytes of the minimal encoding of a value of b effective bits
MinimalLen(b) ==
    IF b <= 7 THEN 1
    ELSE IF b <= 11 THEN 2
    ELSE IF b <= 16 THEN 3
    ELSE IF b <= 21 THEN 4
    ELSE IF b <= 26 THEN 5
    ELSE IF b <= 31 THEN 6
    ELSE 7

EffectiveBits(x) == 64 - leading_zeros(x)

BlockTail(bse, n) ==
    IF bse = 6 THEN <<n % 256>>
    ELSE IF bse = 7 THEN <<n \div 256, n % 256>>
    ELSE <<>>

RateTail(sre, n) ==
    IF sre = 12 THEN <<n % 256>>
    ELSE IF sre \in {13, 14} THEN <<n \div 256, n % 256>>
    ELSE <<>>

Subframes(seed, len) == [j \in 1..len |-> (seed * 37 + j * 11 + 5) % 256]

\* the header of a source frame up to, not including, the header CRC byte
FrameHeader(bse, sre, field, bsn, srn) ==
    <<255, 248, bse * 16 + sre, 24>> \o field \o BlockTail(bse, bsn) \o RateTail(sre, srn)

\* a source frame around the given header and subframes, with correct CRCs
FrameOf(header, body) ==
    LET crc8 == crc8_bytes(0, header, 1)
        covered == header \o <<crc8>> \o body
        crc16 == crc16_bytes(0, covered, 1)
    IN  covered \o <<crc16 \div 256, crc16 % 256>>

SampleNumbers ==
    << U64Zero, U64(1), U64(127), U64(128), U64(2047), U64(2048), U64(65535),
       U64(65536), U64Pow2(20), U64Ones(21), U64Pow2(21), U64Ones(26),
       U64Pow2(26), U64Ones(31), U64Pow2(35), U64Ones(36) >>

\* frame i of the sweep: every block-size code, every sample-rate code and
\* every sample number once
SweepFrame(i) ==
    LET x == SampleNumbers[i + 1]
        bse == (i + 1) % 16
    IN  FrameOf(FrameHeader(bse, i, NumberField(x, MinimalLen(EffectiveBits(x))),
                            17 * i, 1000 * i + 3),
                Subframes(i, i % (MaxSubframeBytes + 1)))

\* frames with an explicit block-size tail at its extremes, and a frame with
\* the invalid sample-rate code behind a valid block-size code
TailFrames ==
    {FrameOf(FrameHeader(6, 9, <<0>>, n, 0), Subframes(n, 1)) : n \in {0, 255}}
    \cup {FrameOf(FrameHeader(7, 9, <<0>>, n, 0), Subframes(n, 1)) : n \in {0, 256, 65535}}
    \cup {FrameOf(FrameHeader(1, 15, <<1>>, 0, 0), Subframes(1, 1))}

\* a frame with both two-byte tails and a two-byte sample number: 14 bytes
LongHeaderFrame ==
    FrameOf(FrameHeader(7, 13, NumberField(U64(128), 2), 4607, 44100), Subframes(7, 1))

\* the same frame cut short at every step of the header and of the footer
CutFrames ==
    {SubSeq(LongHeaderFrame, 1, n) : n \in {0, 1, 3, 4, 5, 7, 9, 10, 11, 12}}

\* frames a strict parser would reject: wrong source CRCs, an overlong
\* sample number, invalid leading bytes of the sample number
OddFrames ==
    LET good == LongHeaderFrame
        header == FrameHeader(2, 9, NumberField(U64(1), 2), 0, 0)
    IN  { [good EXCEPT ![11] = 255 - good[11]],
          [good EXCEPT ![14] = 255 - good[14]],
          FrameOf(header, Subframes(3, 1)),
          FrameOf(FrameHeader(2, 9, <<128>>, 0, 0), Subframes(4, 1)),
          FrameOf(FrameHeader(2, 9, <<255>>, 0, 0), Subframes(5, 1)) }

SourceFrames ==
    {SweepFrame(i) : i \in 0..15} \cup TailFrames \cup {LongHeaderFrame}
    \cup CutFrames \cup OddFrames

(***************************************************************************)
(* The rewriter driver, as Track::write_audio uses an OffsetFrame: a new   *)
(* OffsetFrame::default(), then process on packet after packet; an Err or  *)
(* a panic ends the use of that OffsetFrame.                               *)
(***************************************************************************)
NoResult == [kind |-> "none", out |-> <<>>]

FrameInit ==
    /\ frame_pc = "ready"
    /\ frame = OffsetFrameDefault
    /\ frame_prev = OffsetFrameDefault
    /\ packet = <<>>
    /\ updated_buf = NoResult
    /\ frame_log = <<>>

FrameIdle ==
    /\ frame_pc = "idle"
    /\ frame = OffsetFrameDefault
    /\ frame_prev = OffsetFrameDefault
    /\ packet = <<>>
    /\ updated_buf = NoResult
    /\ frame_log = <<>>

\* let mut frame = OffsetFrame::default()
NewOffsetFrame ==
    /\ frame_pc \in {"ready", "failed", "panicked"}
    /\ Len(frame_log) > 0 \/ frame_pc # "ready"
    /\ frame_pc' = "ready"
    /\ frame' = OffsetFrameDefault
    /\ frame_prev' = OffsetFrameDefault
    /\ packet' = <<>>
    /\ updated_buf' = NoResult
    /\ frame_log' = <<>>

\* frame.process(packet)
Process ==
    /\ frame_pc = "ready"
    /\ Len(frame_log) < MaxCalls
    /\ \E buf \in SourceFrames :
        \E r \in {process(frame, buf, debug_assertions)} :
            /\ packet' = buf
            /\ frame_prev' = frame
            /\ frame' = r.self
            /\ updated_buf' = [kind |-> r.kind, out |-> r.out]
            /\ frame_pc' = IF r.kind = "ok" THEN "ready"
                           ELSE IF r.kind = "err" THEN "failed"
                           ELSE "panicked"
            /\ frame_log' = IF r.kind = "ok" THEN Append(frame_log, buf) ELSE frame_log

(***************************************************************************)
(* Track                                                                   *)
(***************************************************************************)
\* The track number used to identify a lead-out track on a cue sheet.
LEAD_OUT_TRACK_NUMBER == 170

ZeroMd5 == [i \in 1..16 |-> 0]

NoTrack == [number |-> 0]

(***************************************************************************)
(* Text: a string is a sequence of characters, a character a string of     *)
(* length one.                                                             *)
(***************************************************************************)
Digits == <<"0", "1", "2", "3", "4", "5", "6", "7", "8", "9">>

Letters ==
    {"A", "B", "C", "D", "E", "F", "G", "H", "I", "J", "K", "L", "M",
     "N", "O", "P", "Q", "R", "S", "T", "U", "V", "W", "X", "Y", "Z",
     "a", "b", "c", "d", "e", "f", "g", "h", "i", "j", "k", "l", "m",
     "n", "o", "p", "q", "r", "s", "t", "u", "v", "w", "x", "y", "z"}

\* char::is_alphanumeric on the characters of the model
is_alphanumeric(c) == c \in Letters \/ \E d \in 1..10 : Digits[d] = c

\* format!("{}", n) of an unsigned number
RECURSIVE Decimal(_)
Decimal(n) ==
    IF n < 10 THEN <<Digits[n + 1]>>
    ELSE Append(Decimal(n \div 10), Digits[(n % 10) + 1])

\* format!("{:02}", n)
Decimal02(n) == IF n < 10 THEN <<"0">> \o Decimal(n) ELSE Decimal(n)

\* str::ends_with
ends_with(name, suffix) ==
    /\ Len(name) >= Len(suffix)
    /\ SubSeq(name, Len(name) - Len(suffix) + 1, Len(name)) = suffix

DigitValue(c) == CHOOSE d \in 0..9 : Digits[d + 1] = c

RECURSIVE ParseDigits(_, _, _)
ParseDigits(text, i, acc) ==
    IF i > Len(text) THEN acc
    ELSE ParseDigits(text, i + 1, acc * 10 + DigitValue(text[i]))

\* usize::from_str: an optional '+', then one or more decimal digits (the
\* model's texts are too short to overflow a usize)
from_str(text) ==
    LET digits == IF Len(text) > 0 /\ text[1] = "+" THEN Tail(text) ELSE text
    IN  IF Len(digits) > 0 /\ \A i \in 1..Len(digits) : \E d \in 1..10 : Digits[d] = digits[i]
        THEN [ok |-> TRUE, value |-> ParseDigits(digits, 1, 0)]
        ELSE [ok |-> FALSE, value |-> 0]

KeyALBUMARTIST == <<"A", "L", "B", "U", "M", "A", "R", "T", "I", "S", "T">>
KeyARTIST == <<"A", "R", "T", "I", "S", "T">>
KeyALBUM == <<"A", "L", "B", "U", "M">>
KeyDATE == <<"D", "A", "T", "E">>
KeyDISCNUMBER == <<"D", "I", "S", "C", "N", "U", "M", "B", "E", "R">>
KeyTOTALDISCS == <<"T", "O", "T", "A", "L", "D", "I", "S", "C", "S">>
KeyTRACKNUMBER == <<"T", "R", "A", "C", "K", "N", "U", "M", "B", "E", "R">>
KeyTITLE == <<"T", "I", "T", "L", "E">>
KeyCUESHEET == <<"C", "U", "E", "S", "H", "E", "E", "T">>
KeyLOG == <<"L", "O", "G">>

\* symphonia's Tag and the Value::String variant of its Value
Tag(key, value) == [std_key |-> "none", key |-> key, value |-> value]
ValueString(text) == [kind |-> "String", text |-> text]
ValueFlag == [kind |-> "Flag"]

(***************************************************************************)
(* Track::from_tags, Track::pathname and Track::write_metadata.            *)
(***************************************************************************)
\* a slip: a tag with a closing bracket counts as interesting
interesting_tag_keeps_brackets(name) ==
    name # KeyCUESHEET /\ name # KeyLOG

\* fn interesting_tag
interesting_tag(name) ==
    /\ ~ends_with(name, <<"]">>)
    /\ name # KeyCUESHEET
    /\ name # KeyLOG

\* the filter_map of from_tags over the source tags, from the i-th
RECURSIVE filter_tags(_, _, _)
filter_tags(source_tags, suffix, i) ==
    IF i > Len(source_tags) THEN <<>>
    ELSE LET tag == source_tags[i]
             rest == filter_tags(source_tags, suffix, i + 1)
         IN  IF ends_with(tag.key, suffix)
             THEN <<[tag EXCEPT !.key = SubSeq(tag.key, 1, Len(tag.key) - Len(suffix))]>>
                  \o rest
             ELSE IF interesting_tag(tag.key)
             THEN <<tag>> \o rest
             ELSE rest

\* Track::from_tags: the track's STREAMINFO, number, window, tags and
\* visuals; the subtraction end_ts - cue.start_ts panics on underflow in a
\* debug build and wraps in a release build
from_tags(streaminfo, cue, end_ts, source_tags, vis, debug) ==
    LET total == U64Sub(end_ts, cue.start_ts)
        suffix == <<"[">> \o Decimal(cue.index) \o <<"]">>
    IN  IF total.overflow /\ debug THEN [kind |-> "panic", track |-> NoTrack]
        ELSE [kind |-> "ok",
              track |-> [streaminfo |-> [streaminfo EXCEPT !.md5 = ZeroMd5,
                                                           !.total_samples = total.value],
                         number |-> cue.index,
                         start_ts |-> cue.start_ts,
                         end_ts |-> end_ts,
                         tags |-> filter_tags(source_tags, suffix, 1),
                         visuals |-> vis]]

\* Option::None of a tag value
NoValue == <<>>

\* Track::tag_value: the value of the first tag with the given key
tag_value(self, name) ==
    LET found == {i \in 1..Len(self.tags) : self.tags[i].key = name}
    IN  IF found = {} THEN NoValue
        ELSE Some(self.tags[CHOOSE i \in found : \A j \in found : i <= j].value)

\* Some(Value::String(_))
IsSomeString(v) == v # NoValue /\ v[1].kind = "String"

SafePunctuation ==
    {" ", "_", "-", ",", ".", "!", "&", "(", ")", "[", "]", "{", "}", "<", ">"}

\* fn is_risky_char
is_risky_char(c) ==
    IF c \in SafePunctuation THEN FALSE ELSE ~is_alphanumeric(c)

\* fn sanitize_pathname
sanitize_pathname(name) ==
    [i \in 1..Len(name) |-> IF is_risky_char(name[i]) THEN "_" ELSE name[i]]

\* PathBuf::push: a component that starts at the root replaces the path
push(buf, component) ==
    IF Len(component) > 0 /\ component[1] = "/" THEN <<component>>
    ELSE Append(buf, component)

\* the first component pushed by pathname
artist_component(self) ==
    IF IsSomeString(tag_value(self, KeyALBUMARTIST))
    THEN sanitize_pathname(tag_value(self, KeyALBUMARTIST)[1].text)
    ELSE IF IsSomeString(tag_value(self, KeyARTIST))
    THEN sanitize_pathname(tag_value(self, KeyARTIST)[1].text)
    ELSE <<"U", "n", "k", "n", "o", "w", "n", " ", "A", "r", "t", "i", "s", "t">>

\* the second component pushed by pathname
album_component(self) ==
    IF IsSomeString(tag_value(self, KeyALBUM))
    THEN IF IsSomeString(tag_value(self, KeyDATE))
         THEN tag_value(self, KeyDATE)[1].text \o <<" ", "-", " ">>
              \o sanitize_pathname(tag_value(self, KeyALBUM)[1].text)
         ELSE sanitize_pathname(tag_value(self, KeyALBUM)[1].text)
    ELSE <<"U", "n", "k", "n", "o", "w", "n", " ", "A", "l", "b", "u", "m">>

\* disc_prefix.as_deref().unwrap_or("")
disc_prefix(self) ==
    LET disc == tag_value(self, KeyDISCNUMBER)
        disc_total == tag_value(self, KeyTOTALDISCS)
    IN  IF /\ IsSomeString(disc)
           /\ IsSomeString(disc_total)
           /\ from_str(disc_total[1].text).ok
           /\ from_str(disc_total[1].text).value > 1
        THEN IF from_str(disc[1].text).ok
             THEN Decimal02(from_str(disc[1].text).value) \o <<"-">>
             ELSE disc[1].text \o <<"-">>
        ELSE <<>>

FlacSuffix == <<".", "f", "l", "a", "c">>

\* Track::pathname: the components pushed onto the PathBuf, in order
pathname(self) ==
    LET dirs == push(push(<<>>, artist_component(self)), album_component(self))
        trackno == tag_value(self, KeyTRACKNUMBER)
        title == tag_value(self, KeyTITLE)
    IN  IF IsSomeString(trackno) /\ IsSomeString(title)
        THEN IF from_str(trackno[1].text).ok
             THEN push(dirs, disc_prefix(self)
                             \o Decimal02(from_str(trackno[1].text).value)
                             \o <<".">> \o sanitize_pathname(title[1].text)
                             \o FlacSuffix)
             ELSE push(dirs, disc_prefix(self) \o <<"9", "9", ".">>
                             \o sanitize_pathname(title[1].text) \o FlacSuffix)
        ELSE dirs

MetadataBlock(type, is_last, body) == [type |-> type, is_last |-> is_last, body |-> body]

\* the Block::Picture built from a visual
picture_of(visual) == MetadataBlock("PICTURE", FALSE, visual)

\* the VorbisComment built from the track's tags
comment_of(self) ==
    [vendor_string |-> "flac-tracksplit",
     comments |-> [i \in 1..Len(self.tags) |->
                      <<self.tags[i].key, self.tags[i].value>>]]

\* a slip: the cue-derived estimate is written, not the counted total
write_metadata_keeps_estimate(self, total_samples, padding) ==
    <<[type |-> "fLaC"],
      MetadataBlock("STREAMINFO", FALSE, self.streaminfo),
      MetadataBlock("VORBIS_COMMENT", FALSE, comment_of(self))>>
    \o [i \in 1..Len(self.visuals) |-> picture_of(self.visuals[i])]
    \o <<MetadataBlock("PADDING", TRUE, padding)>>

\* a slip: no PADDING block is written for an empty padding
write_metadata_skips_empty_padding(self, total_samples, padding) ==
    <<[type |-> "fLaC"],
      MetadataBlock("STREAMINFO", FALSE,
                    [self.streaminfo EXCEPT !.total_samples = total_samples]),
      MetadataBlock("VORBIS_COMMENT", FALSE, comment_of(self))>>
    \o [i \in 1..Len(self.visuals) |-> picture_of(self.visuals[i])]
    \o (IF padding = 0 THEN <<>> ELSE <<MetadataBlock("PADDING", TRUE, padding)>>)

\* Track::write_metadata: what it writes to the sink, block by block (the
\* body of the PADDING block is given by its length in zero bytes)
write_metadata(self, total_samples, padding) ==
    <<[type |-> "fLaC"],
      MetadataBlock("STREAMINFO", FALSE,
                    [self.streaminfo EXCEPT !.total_samples = total_samples]),
      MetadataBlock("VORBIS_COMMENT", FALSE, comment_of(self))>>
    \o [i \in 1..Len(self.visuals) |-> picture_of(self.visuals[i])]
    \o <<MetadataBlock("PADDING", TRUE, padding)>>

(***************************************************************************)
(* Sources: a STREAMINFO, a cue list with ascending start_ts, visuals and  *)
(* a stream of packets that are contiguous from timestamp 0.               *)
(***************************************************************************)
\* the block-size codes of a stream alternate between the two of its pattern
\* File::create(path) truncates: what the file system holds under a path
\* is what the last handle created for that path has written
on_disk(fs, path) ==
    LET same == {i \in 1..Len(fs) : fs[i].path = path}
    IN  IF same = {} THEN <<>>
        ELSE fs[CHOOSE i \in same : \A j \in same : j <= i].content

BlockPatterns == << <<1, 1>>, <<8, 6>>, <<6, 1>> >>

\* the explicit block-size tail of the packets with code 0b0110: 100 samples
ExplicitTail == 99

\* the duration the demultiplexer reports for a packet of the given code
\* (the reserved code 0 marks a packet whose frame the rewriter rejects)
DurOf(code) ==
    IF code = 1 THEN 192
    ELSE IF code = 6 THEN ExplicitTail + 1
    ELSE IF code = 8 THEN 256
    ELSE 192

CodeAt(pattern, bad, k) ==
    IF k = bad THEN 0 ELSE BlockPatterns[pattern][((k - 1) % 2) + 1]

RECURSIVE TsAt(_, _, _)
TsAt(pattern, bad, k) ==
    IF k = 1 THEN 0 ELSE TsAt(pattern, bad, k - 1) + DurOf(CodeAt(pattern, bad, k - 1))

\* the k-th packet of a stream: its frame carries its timestamp as sample number
PacketAt(pattern, bad, k) ==
    LET code == CodeAt(pattern, bad, k)
        ts == U64(TsAt(pattern, bad, k))
    IN  [ts |-> ts,
         dur |-> U64(DurOf(code)),
         buf |-> FrameOf(FrameHeader(code, 9,
                                     NumberField(ts, MinimalLen(EffectiveBits(ts))),
                                     ExplicitTail, 0),
                         Subframes(k, 1))]

Streams ==
    {[k \in 1..n |-> PacketAt(pattern, bad, k)] :
        pattern \in 1..Len(BlockPatterns), n \in 1..MaxPackets, bad \in 0..MaxPackets}

StreamTotal(stream) ==
    IF Len(stream) = 0 THEN U64Zero
    ELSE U64Add(stream[Len(stream)].ts, stream[Len(stream)].dur).value

CueTimes == {0, 100, 192, 448}

\* the track entries of a cue list: indexes 1..n, start_ts ascending
TrackCues ==
    {c \in UNION {[1..n -> CueTimes] : n \in 0..MaxCues} :
        \A i \in 1..(Len(c) - 1) : c[i] <= c[i + 1]}

CueOf(index, time) == [index |-> index, start_ts |-> U64(time)]

CueLists ==
    {[i \in 1..Len(c) |-> CueOf(i, c[i])] : c \in TrackCues}
    \cup {[i \in 1..(Len(c) + 1) |->
              IF i <= Len(c) THEN CueOf(i, c[i]) ELSE CueOf(LEAD_OUT_TRACK_NUMBER, t)] :
          c \in TrackCues, t \in CueTimes}

AscendingCues(list) ==
    \A i \in 1..(Len(list) - 1) : U64Le(list[i].start_ts, list[i + 1].start_ts)

SourceInfo(total_samples) ==
    [min_block_size |-> 100, max_block_size |-> 256,
     min_frame_size |-> 9, max_frame_size |-> 11,
     sample_rate |-> 44100, num_channels |-> 2, bits_per_sample |-> 16,
     total_samples |-> total_samples,
     md5 |-> [i \in 1..16 |-> 16 + i]]

VisualLists == {[i \in 1..n |-> [media_type |-> "image/png", data |-> i]] : n \in 0..MaxVisuals}

\* the tags of a source: none, or per-disc tags with per-track titles
SourceTags ==
    {<<>>,
     <<Tag(KeyALBUM, ValueString(<<"L", "i", "v", "e">>)),
       Tag(KeyTITLE \o <<"[", "1", "]">>, ValueString(<<"O", "n", "e">>)),
       Tag(KeyTRACKNUMBER \o <<"[", "1", "]">>, ValueString(<<"1">>)),
       Tag(KeyTITLE \o <<"[", "2", "]">>, ValueString(<<"T", "w", "o">>)),
       Tag(KeyTRACKNUMBER \o <<"[", "2", "]">>, ValueString(<<"2">>)),
       Tag(KeyCUESHEET, ValueString(<<"x">>))>>}

(***************************************************************************)
(* split_one_file, after the reader is set up and the time base checked.   *)
(***************************************************************************)
SplitInit ==
    /\ reader \in Streams
    /\ cues \in {list \in CueLists : AscendingCues(list)}
    /\ info \in {SourceInfo(U64Zero), SourceInfo(StreamTotal(reader))}
    /\ tags \in SourceTags
    /\ visuals \in VisualLists
    /\ metadata_padding \in {0, 2048}
    /\ reader_pos = 0
    /\ pc = "start"
    /\ cue_pos = 0
    /\ track = NoTrack
    /\ audio_buffer = <<>>
    /\ last_end = U64Zero
    /\ sample_count = U64Zero
    /\ audio_returns = <<>>
    /\ files = <<>>
    /\ track_paths = <<>>
    /\ outcome = "running"
    /\ pulled = <<>>

SplitIdle ==
    /\ reader = <<>>
    /\ cues = <<>>
    /\ info = SourceInfo(U64Zero)
    /\ tags = <<>>
    /\ visuals = <<>>
    /\ metadata_padding = 0
    /\ reader_pos = 0
    /\ pc = "idle"
    /\ cue_pos = 0
    /\ track = NoTrack
    /\ audio_buffer = <<>>
    /\ last_end = U64Zero
    /\ sample_count = U64Zero
    /\ audio_returns = <<>>
    /\ files = <<>>
    /\ track_paths = <<>>
    /\ outcome = "running"
    /\ pulled = <<>>

Finish(how) ==
    /\ pc' = "done"
    /\ outcome' = how

\* a slip: a source without cues is an error
CheckCues_fails_without_cues ==
    /\ pc = "start"
    /\ IF Len(cues) = 0
       THEN Finish("err")
       ELSE pc' = "loop" /\ UNCHANGED outcome
    /\ UNCHANGED <<reader_pos, cue_pos, track, audio_buffer, last_end, sample_count,
                   audio_returns, files, track_paths, frame, pulled>>

\* if cue_iter.peek().is_none() { warn!(..); return Ok(track_paths) }
CheckCues ==
    /\ pc = "start"
    /\ IF Len(cues) = 0
       THEN Finish("ok")
       ELSE pc' = "loop" /\ UNCHANGED outcome
    /\ UNCHANGED <<reader_pos, cue_pos, track, audio_buffer, last_end, sample_count,
                   audio_returns, files, track_paths, frame, pulled>>

\* the match on cue_iter.peek(): end_ts and the cue entries consumed by it
end_ts_of(next_pos) ==
    IF next_pos > Len(cues)
    THEN [end_ts |-> info.total_samples, consumed |-> 0]
    ELSE IF cues[next_pos].index = LEAD_OUT_TRACK_NUMBER
    THEN [end_ts |-> cues[next_pos].start_ts, consumed |-> 1]
    ELSE [end_ts |-> cues[next_pos].start_ts, consumed |-> 0]

\* while let Some(cue) = cue_iter.next(): the loop is left with
\* Ok(track_paths) when the cue list is used up
LoopEnd ==
    /\ pc = "loop"
    /\ cue_pos >= Len(cues)
    /\ Finish("ok")
    /\ UNCHANGED <<reader_pos, cue_pos, track, audio_buffer, last_end, sample_count,
                   audio_returns, files, track_paths, frame, pulled>>

\* a slip: the buffer of the previous track is not cleared
BeginTrack_keeps_buffer ==
    /\ pc = "loop"
    /\ cue_pos < Len(cues)
    /\ LET cue == cues[cue_pos + 1]
           e == end_ts_of(cue_pos + 2)
           built == from_tags(info, cue, e.end_ts, tags, visuals, debug_assertions)
       IN  /\ audio_buffer' = audio_buffer
           /\ cue_pos' = cue_pos + 1 + e.consumed
           /\ IF built.kind = "panic"
              THEN /\ Finish("panic")
                   /\ UNCHANGED <<track, files>>
              ELSE /\ track' = built.track
                   /\ files' = Append(files, [number |-> cue.index,
                                            path |-> pathname(built.track),
                                            content |-> <<>>])
                   /\ pc' = "audio"
                   /\ UNCHANGED outcome
    /\ last_end' = U64Zero
    /\ frame' = OffsetFrameDefault
    /\ UNCHANGED <<reader_pos, sample_count, audio_returns, track_paths, pulled>>

\* one turn of the loop up to the call of write_audio: the buffer is
\* cleared, the Track built, the output file created, and write_audio entered
\* with last_end = 0 and a new OffsetFrame
BeginTrack ==
    /\ pc = "loop"
    /\ cue_pos < Len(cues)
    /\ LET cue == cues[cue_pos + 1]
           e == end_ts_of(cue_pos + 2)
           built == from_tags(info, cue, e.end_ts, tags, visuals, debug_assertions)
       IN  /\ audio_buffer' = <<>>
           /\ cue_pos' = cue_pos + 1 + e.consumed
           /\ IF built.kind = "panic"
              THEN /\ Finish("panic")
                   /\ UNCHANGED <<track, files>>
              ELSE /\ track' = built.track
                   /\ files' = Append(files, [number |-> cue.index,
                                            path |-> pathname(built.track),
                                            content |-> <<>>])
                   /\ pc' = "audio"
                   /\ UNCHANGED outcome
    /\ last_end' = U64Zero
    /\ frame' = OffsetFrameDefault
    /\ UNCHANGED <<reader_pos, sample_count, audio_returns, track_paths, pulled>>

\* the record of a delivered packet: the file and the window of the track
\* being written, and the result of the assertion and of frame.process
Pulled(pkt, kind, out) ==
    [ts |-> pkt.ts, dur |-> pkt.dur, file |-> Len(files),
     start_ts |-> track.start_ts, end_ts |-> track.end_ts, kind |-> kind, out |-> out]

\* one turn of the loop of Track::write_audio
NextPacket ==
    /\ pc = "audio"
    /\ IF reader_pos >= Len(reader)
       THEN \* next_packet fails at the end of the stream
            /\ Finish("err")
            /\ UNCHANGED <<reader_pos, frame, audio_buffer, last_end, sample_count,
                           audio_returns, pulled>>
       ELSE
            LET pkt == reader[reader_pos + 1]
            IN  /\ reader_pos' = reader_pos + 1
                /\ IF U64Lt(pkt.ts, track.start_ts)
                   THEN \* ma::assert_ge!(ts, self.start_ts, ..)
                        /\ Finish("panic")
                        /\ pulled' = Append(pulled, Pulled(pkt, "assert", <<>>))
                        /\ UNCHANGED <<frame, audio_buffer, last_end, sample_count,
                                       audio_returns>>
                   ELSE
                        \E r \in {process(frame, pkt.buf, debug_assertions)} :
                            LET end == U64Add(pkt.ts, pkt.dur)
                            IN  /\ frame' = r.self
                                /\ pulled' = Append(pulled, Pulled(pkt, r.kind, r.out))
                                /\ IF r.kind # "ok"
                                   THEN /\ Finish(r.kind)
                                        /\ UNCHANGED <<audio_buffer, last_end,
                                                       sample_count, audio_returns>>
                                   ELSE /\ audio_buffer' = audio_buffer \o r.out
                                        /\ IF end.overflow /\ debug_assertions
                                           THEN /\ Finish("panic")
                                                /\ UNCHANGED <<last_end, sample_count,
                                                               audio_returns>>
                                           ELSE /\ last_end' = end.value
                                                /\ IF U64Le(track.end_ts, end.value)
                                                   THEN /\ sample_count' = r.self.samples_processed
                                                        /\ audio_returns' =
                                                               Append(audio_returns,
                                                                      r.self.samples_processed)
                                                        /\ pc' = "metadata"
                                                   ELSE /\ pc' = "audio"
                                                        /\ UNCHANGED <<sample_count,
                                                                       audio_returns>>
                                                /\ UNCHANGED outcome
    /\ UNCHANGED <<cue_pos, track, files, track_paths>>

\* track.write_metadata(sample_count, metadata_padding, &mut f)
WriteMetadata ==
    /\ pc = "metadata"
    /\ files' = [files EXCEPT ![Len(files)].content =
                     @ \o write_metadata(track, sample_count, metadata_padding)]
    /\ pc' = "flush"
    /\ UNCHANGED <<reader_pos, cue_pos, track, audio_buffer, last_end, sample_count,
                   audio_returns, track_paths, outcome, frame, pulled>>

\* f.write_all(&audio_buffer); track_paths.push(pathbuf)
WriteAudioBuffer ==
    /\ pc = "flush"
    /\ files' = [files EXCEPT ![Len(files)].content =
                     Append(@, [type |-> "frames", body |-> audio_buffer])]
    /\ track_paths' = Append(track_paths, pathname(track))
    /\ pc' = "loop"
    /\ UNCHANGED <<reader_pos, cue_pos, track, audio_buffer, last_end, sample_count,
                   audio_returns, outcome, frame, pulled>>

(***************************************************************************)
(* flac-writer: write_flac_stream_header, write_metadata_block_header,     *)
(* write_streaminfo and write_padding (src/flac-writer/src).  The sink is  *)
(* a sequence of bytes; a result carries the sink as the call left it.     *)
(***************************************************************************)
FLAC_STREAM_MARKER == <<102, 76, 97, 67>>

STREAMINFO_BYTE_LENGTH == 34

PADDING_CHUNK_SIZE == 20 * 1024

\* the variants of the enum MetadataBlock
BlockStreamInfo(streaminfo) == [kind |-> "StreamInfo", info |-> streaminfo]
BlockPadding(length) == [kind |-> "Padding", length |-> length]
BlockOther(kind) == [kind |-> kind]

OtherBlockKinds ==
    {"Application", "SeekTable", "VorbisComment", "CueSheet", "Picture", "Reserved"}

SinkOk(to) == [kind |-> "ok", to |-> to]
SinkErr(to) == [kind |-> "err", to |-> to]
SinkPanic(to) == [kind |-> "panic", to |-> to]

\* WriteBytesExt::write_u16 / write_u24 / write_u32 with BigEndian
write_u16(n) == <<n \div 256, n % 256>>
write_u24(n) == <<n \div 65536, (n \div 256) % 256, n % 256>>

\* a slip: the is_last bit is never set
write_metadata_block_header_never_last(to, is_last, block) ==
    IF block.kind \notin {"StreamInfo", "Padding"}
    THEN SinkErr(to)
    ELSE LET block_type == IF block.kind = "StreamInfo" THEN 0 ELSE 1
             byte_length == IF block.kind = "StreamInfo" THEN STREAMINFO_BYTE_LENGTH
                            ELSE block.length
         IN  IF byte_length >= 2 ^ 24
             THEN SinkPanic(Append(to, block_type))
             ELSE SinkOk(Append(to, block_type) \o write_u24(byte_length))

\* fn write_metadata_block_header: the header byte, then the 24-bit length;
\* byteorder's write_u24 asserts that the value fits into three bytes
write_metadata_block_header(to, is_last, block) ==
    IF block.kind \notin {"StreamInfo", "Padding"}
    THEN SinkErr(to)
    ELSE LET block_type == IF block.kind = "StreamInfo" THEN 0 ELSE 1
             byte_length == IF block.kind = "StreamInfo" THEN STREAMINFO_BYTE_LENGTH
                            ELSE block.length
             header == BitOr(block_type, ((IF is_last THEN 1 ELSE 0) * 128) % 256)
         IN  IF byte_length >= 2 ^ 24
             THEN SinkPanic(Append(to, header))
             ELSE SinkOk(Append(to, header) \o write_u24(byte_length))

\* Option::None of n_samples
NoSamples == <<>>

\* a u32 minus one: a panic in a debug build when it underflows, a wrap in a
\* release build; then .truncate() to u8
minus_one_u8(n, debug) ==
    IF n = 0 THEN (IF debug THEN -1 ELSE 255) ELSE (n - 1) % 256

\* pub(crate) fn write_streaminfo
write_streaminfo(to, streaminfo, debug) ==
    LET sample_rate_ls_nybble == BitAnd(streaminfo.sample_rate, 15)
        num_channels == minus_one_u8(streaminfo.channels, debug)
        bits_per_sample == minus_one_u8(streaminfo.bits_per_sample, debug)
        bps_msb == bits_per_sample \div 16
        bps_lsb == BitAnd(bits_per_sample, 15)
        samples == IF streaminfo.n_samples = NoSamples THEN U64Zero
                   ELSE streaminfo.n_samples[1]
        n_samples_msb == samples[2] % 256
        fixed == write_u16(streaminfo.block_len_min)
                 \o write_u16(streaminfo.block_len_max)
                 \o write_u24(streaminfo.frame_byte_len_min)
                 \o write_u24(streaminfo.frame_byte_len_max)
                 \o write_u16((streaminfo.sample_rate \div 16) % 65536)
    IN  IF num_channels = -1 THEN SinkPanic(to \o fixed)
        ELSE IF bits_per_sample = -1 THEN SinkPanic(to \o fixed)
        ELSE SinkOk(to \o fixed
                    \o <<BitOr(BitOr((sample_rate_ls_nybble * 32) % 256,
                                     (num_channels * 2) % 256),
                               bps_msb),
                         BitOr((bps_lsb * 16) % 256, n_samples_msb)>>
                    \o write_u16(samples[3]) \o write_u16(samples[4])
                    \o streaminfo.md5)

Zeroes(n) == [i \in 1..n |-> 0]

\* a slip: only the first chunk is written
write_padding_one_chunk(to, n_bytes) ==
    to \o Zeroes(IF n_bytes < PADDING_CHUNK_SIZE THEN n_bytes ELSE PADDING_CHUNK_SIZE)

\* pub(crate) fn write_padding: one write_all per chunk of the range 0..n_bytes
RECURSIVE write_padding(_, _)
write_padding(to, n_bytes) ==
    IF n_bytes = 0 THEN to
    ELSE LET count == IF n_bytes < PADDING_CHUNK_SIZE THEN n_bytes
                      ELSE PADDING_CHUNK_SIZE
         IN  write_padding(to \o Zeroes(count), n_bytes - count)

\* the loop of write_flac_stream_header over the extra blocks, from the i-th
RECURSIVE write_blocks(_, _, _, _)
write_blocks(to, blocks, i, debug) ==
    IF i > Len(blocks) THEN SinkOk(to)
    ELSE LET block == blocks[i]
             header == write_metadata_block_header(to, i = Len(blocks), block)
         IN  IF header.kind # "ok" THEN header
             ELSE IF block.kind = "StreamInfo"
             THEN LET body == write_streaminfo(header.to, block.info, debug)
                  IN  IF body.kind # "ok" THEN body
                      ELSE write_blocks(body.to, blocks, i + 1, debug)
             ELSE IF block.kind = "Padding"
             THEN write_blocks(write_padding(header.to, block.length), blocks, i + 1, debug)
             ELSE \* todo!()
                  SinkPanic(header.to)

\* pub fn write_flac_stream_header
write_flac_stream_header(to, streaminfo, blocks, debug) ==
    LET marked == to \o FLAC_STREAM_MARKER
        streaminfo_is_last == Len(blocks) = 0
        header == write_metadata_block_header(marked, streaminfo_is_last,
                                              BlockStreamInfo(streaminfo))
    IN  IF header.kind # "ok" THEN header
        ELSE LET body == write_streaminfo(header.to, streaminfo, debug)
             IN  IF body.kind # "ok" THEN body
                 ELSE write_blocks(body.to, blocks, 1, debug)

\* the StreamInfo of the crate's tests (channels is the Channels bit mask:
\* FRONT_LEFT | FRONT_RIGHT)
SimpleMd5 == <<45, 25, 71, 107, 106, 188, 62, 244, 231, 195, 43, 100, 17, 14, 89, 165>>

SimpleStreamInfo ==
    [block_len_min |-> 4608, block_len_max |-> 4608,
     frame_byte_len_min |-> 0, frame_byte_len_max |-> 19024,
     sample_rate |-> 44100, channels |-> 3, bits_per_sample |-> 16,
     n_samples |-> Some(U64(118981800)), md5 |-> SimpleMd5]

SampleRates == {1, 15, 16, 8000, 44100, 48000, 655350}
\* Channels bit masks: front left; front left and right; front centre; the
\* first 3, 6 and 8 channel positions
ChannelMasks == {1, 3, 4, 7, 63, 255}
SampleBits == {4, 16, 17, 24, 32}
SampleCounts ==
    {NoSamples, Some(U64(118981800)), Some(U64Pow2(32)), Some(<<0, 15, 65535, 65535>>)}

StreamInfos ==
    {[SimpleStreamInfo EXCEPT !.sample_rate = r, !.channels = c, !.bits_per_sample = b,
                              !.n_samples = n, !.md5 = d] :
        r \in SampleRates, c \in ChannelMasks, b \in SampleBits, n \in SampleCounts,
        d \in {SimpleMd5, ZeroMd5}}

\* padding lengths around the chunk size, and the first that does not fit
\* into the 24-bit length field
PaddingLengths ==
    {0, 1, PADDING_CHUNK_SIZE - 1, PADDING_CHUNK_SIZE, PADDING_CHUNK_SIZE + 1,
     2 * PADDING_CHUNK_SIZE, 2 * PADDING_CHUNK_SIZE + 4040, 2 ^ 24}

ExtraBlocks ==
    {BlockPadding(0), BlockPadding(PADDING_CHUNK_SIZE + 1), BlockPadding(2 ^ 24),
     BlockStreamInfo(SimpleStreamInfo)}
    \cup {BlockOther(kind) : kind \in OtherBlockKinds}

BlockLists ==
    UNION {[1..n -> ExtraBlocks] : n \in 0..MaxBlocks}
    \cup {<<BlockPadding(length)>> : length \in PaddingLengths}

\* the Tracks handed to Track::write_metadata
WriterTracks ==
    {from_tags(SourceInfo(U64Zero), CueOf(1, 0), U64(192), source_tags, vis, FALSE).track :
        source_tags \in SourceTags, vis \in VisualLists}

WriterInit ==
    /\ writer_pc = "input"
    /\ \/ /\ writer_info \in StreamInfos
          /\ writer_blocks = <<>>
          /\ writer_track \in WriterTracks
          /\ writer_padding = 0
       \/ /\ writer_info = SimpleStreamInfo
          /\ writer_blocks \in BlockLists
          /\ writer_track \in WriterTracks
          /\ writer_padding \in {0, 2048}
    /\ writer_result = NoResult
    /\ writer_prelude = <<>>

WriterIdle ==
    /\ writer_pc = "idle"
    /\ writer_info = SimpleStreamInfo
    /\ writer_blocks = <<>>
    /\ writer_track = NoTrack
    /\ writer_padding = 0
    /\ writer_result = NoResult
    /\ writer_prelude = <<>>

\* write_flac_stream_header(&mut buf, &si, &blocks) on an empty buffer
WriteFlacStreamHeader ==
    /\ writer_pc = "input"
    /\ writer_result' = write_flac_stream_header(<<>>, writer_info, writer_blocks,
                                                 debug_assertions)
    /\ writer_pc' = "header"
    /\ UNCHANGED <<writer_info, writer_blocks, writer_track, writer_padding, writer_prelude>>

\* track.write_metadata(sample_count, metadata_padding, &mut f)
WriteTrackMetadata ==
    /\ writer_pc = "input"
    /\ writer_prelude' = write_metadata(writer_track, U64(192), writer_padding)
    /\ writer_pc' = "track"
    /\ UNCHANGED <<writer_info, writer_blocks, writer_track, writer_padding, writer_result>>

(***************************************************************************)
(* Track::from_tags and Track::pathname as functions of the source tags.   *)
(***************************************************************************)
\* keys that exercise the filter of from_tags
FilterKeys ==
    {KeyTITLE, KeyCUESHEET, KeyLOG, <<"l", "o", "g">>, <<>>,
     KeyTITLE \o <<"[", "1", "]">>, KeyTITLE \o <<"[", "2", "]">>,
     KeyTITLE \o <<"[", "1", "1", "]">>, KeyTITLE \o <<"[", "0", "1", "]">>,
     KeyTITLE \o <<"[", "1">>, KeyTITLE \o <<"]">>,
     KeyCUESHEET \o <<"[", "1", "]">>, <<"[", "1", "]">>,
     KeyTITLE \o <<"[", "2", "]", "[", "1", "]">>}

FilterTags ==
    {Tag(key, ValueString(<<"v">>)) : key \in FilterKeys}
    \cup {Tag(KeyTITLE, ValueString(<<"w">>)), Tag(KeyTITLE \o <<"[", "1", "]">>, ValueFlag)}

FilterTagLists == UNION {[1..n -> FilterTags] : n \in 0..MaxTags}

\* the values a path tag takes; the empty sequence stands for "no such tag"
PathValues(key) ==
    IF key = KeyALBUMARTIST THEN <<<<"A", "C", "/", "D", "C">>>>
    ELSE IF key = KeyARTIST THEN <<<<"W", "h", "o", "?">>>>
    ELSE IF key = KeyALBUM THEN <<<<"L", "i", "v", "e", ":", "1">>>>
    ELSE IF key = KeyDATE THEN <<<<"1", "9", "7", "0">>, <<"1", "9", "7", "0", "/", "2">>>>
    ELSE IF key = KeyDISCNUMBER THEN <<<<"1">>, <<"1", "/", "2">>>>
    ELSE IF key = KeyTOTALDISCS THEN <<<<"1">>, <<"2">>, <<"t", "w", "o">>>>
    ELSE IF key = KeyTRACKNUMBER THEN <<<<"7">>, <<"+", "3">>, <<"A", "1">>>>
    ELSE <<<<"a", "/", "b", " ", "(", "c", ")">>>>

PathKeys ==
    <<KeyALBUMARTIST, KeyARTIST, KeyALBUM, KeyDATE, KeyDISCNUMBER, KeyTOTALDISCS,
      KeyTRACKNUMBER, KeyTITLE>>

\* the tag list that takes the choice[i]-th value for the i-th path key
RECURSIVE PathTagsFrom(_, _)
PathTagsFrom(choice, i) ==
    IF i > Len(PathKeys) THEN <<>>
    ELSE (IF choice[i] = 0 THEN <<>>
          ELSE <<Tag(PathKeys[i], ValueString(PathValues(PathKeys[i])[choice[i]]))>>)
         \o PathTagsFrom(choice, i + 1)

PathTagLists ==
    {PathTagsFrom(choice, 1) :
        choice \in {c \in [1..Len(PathKeys) -> 0..3] :
                       \A i \in 1..Len(PathKeys) : c[i] <= Len(PathValues(PathKeys[i]))}}

TagCueIndexes == {1, 2, 11}

TagInit ==
    /\ tag_pc = "input"
    /\ tag_source \in FilterTagLists \cup PathTagLists
    /\ tag_cue \in {CueOf(index, 0) : index \in TagCueIndexes}
    /\ tag_track = NoTrack
    /\ tag_path = <<>>

TagIdle ==
    /\ tag_pc = "idle"
    /\ tag_source = <<>>
    /\ tag_cue = CueOf(1, 0)
    /\ tag_track = NoTrack
    /\ tag_path = <<>>

\* Track::from_tags(&info, cue, end_ts, tags, visuals)
FromTags ==
    /\ tag_pc = "input"
    /\ tag_track' = from_tags(SourceInfo(U64Zero), tag_cue, U64(192), tag_source, <<>>,
                              debug_assertions).track
    /\ tag_pc' = "track"
    /\ UNCHANGED <<tag_source, tag_cue, tag_path>>

\* track.pathname()
Pathname ==
    /\ tag_pc = "track"
    /\ tag_path' = pathname(tag_track)
    /\ tag_pc' = "path"
    /\ UNCHANGED <<tag_source, tag_cue, tag_track>>

(***************************************************************************)
(* The split subcommand of main: from milliseconds to a sample range.      *)
(* get_sample_rate, get_total_samples and extract_sample_range are not     *)
(* part of the sources at hand: the first two are inputs, the third is     *)
(* recorded with the arguments of its call.                                *)
(***************************************************************************)
\* i64::max and i64::min
max(a, b) == IF a >= b THEN a ELSE b
min(a, b) == IF a <= b THEN a ELSE b

\* the adjustment of one of from_ms and to_ms
adjusted_ms(ms, total_ms) ==
    IF ms < 0 THEN max(total_ms + ms, 0) ELSE min(ms, total_ms)

\* a slip: the range is checked with > where the source has >=
split_command_accepts_equal(from_ms, to_ms, total_samples, sample_rate) ==
    IF sample_rate = 0 THEN [kind |-> "panic"]
    ELSE LET total_ms == (total_samples * 1000) \div sample_rate
             adjusted_from_ms == adjusted_ms(from_ms, total_ms)
             adjusted_to_ms == adjusted_ms(to_ms, total_ms)
         IN  IF adjusted_from_ms > adjusted_to_ms
             THEN [kind |-> "err", adjusted_from_ms |-> adjusted_from_ms,
                   adjusted_to_ms |-> adjusted_to_ms]
             ELSE [kind |-> "extract",
                   adjusted_from_ms |-> adjusted_from_ms,
                   adjusted_to_ms |-> adjusted_to_ms,
                   from_sample |-> min((adjusted_from_ms * sample_rate) \div 1000,
                                       total_samples),
                   to_sample |-> min((adjusted_to_ms * sample_rate) \div 1000,
                                     total_samples)]

\* Some(Commands::Split { .. }) of main, up to the call of
\* extract_sample_range (no product of the model's inputs overflows 64 bits)
split_command(from_ms, to_ms, total_samples, sample_rate) ==
    IF sample_rate = 0 THEN [kind |-> "panic"]
    ELSE LET total_ms == (total_samples * 1000) \div sample_rate
             adjusted_from_ms == adjusted_ms(from_ms, total_ms)
             adjusted_to_ms == adjusted_ms(to_ms, total_ms)
         IN  IF adjusted_from_ms >= adjusted_to_ms
             THEN [kind |-> "err", adjusted_from_ms |-> adjusted_from_ms,
                   adjusted_to_ms |-> adjusted_to_ms]
             ELSE [kind |-> "extract",
                   adjusted_from_ms |-> adjusted_from_ms,
                   adjusted_to_ms |-> adjusted_to_ms,
                   from_sample |-> min((adjusted_from_ms * sample_rate) \div 1000,
                                       total_samples),
                   to_sample |-> min((adjusted_to_ms * sample_rate) \div 1000,
                                     total_samples)]

\* milliseconds on both sides of zero and of the durations of the model; the
\* outermost two stand for values far beyond any duration
Milliseconds ==
    {-1000000, -20000, -9500, -500, -1, 0, 1, 2, 500, 9500, 10000, 20000, 1000000}

RangeTotals == {0, 1, 999, 5000, 441000}

RangeRates == {1, 500, 999, 1000, 44100, 655350}

RangeInit ==
    /\ range_pc = "input"
    /\ range_args \in [from_ms : Milliseconds, to_ms : Milliseconds,
                       total_samples : RangeTotals, sample_rate : RangeRates]
    /\ range_result = [kind |-> "none"]

RangeIdle ==
    /\ range_pc = "idle"
    /\ range_args = [from_ms |-> 0, to_ms |-> 0, total_samples |-> 0, sample_rate |-> 1]
    /\ range_result = [kind |-> "none"]

\* the split subcommand runs
SplitCommand ==
    /\ range_pc = "input"
    /\ range_result' = split_command(range_args.from_ms, range_args.to_ms,
                                     range_args.total_samples, range_args.sample_rate)
    /\ range_pc' = "done"
    /\ UNCHANGED range_args

(***************************************************************************)
(* The two CRC engines, fed one byte at a time.                            *)
(***************************************************************************)
\* the bytes 0x31..0x39, "123456789"
CheckVector == <<49, 50, 51, 52, 53, 54, 55, 56, 57>>

CrcBytes == {0, 1, 49, 128, 255}

CrcInputs == {CheckVector} \cup UNION {[1..n -> CrcBytes] : n \in 0..MaxCrcBytes}

CrcInit ==
    /\ crc_input \in CrcInputs
    /\ crc_fed = 0
    /\ header_crc8 = 0
    /\ footer_crc16 = 0

CrcIdle ==
    /\ crc_input = <<>>
    /\ crc_fed = 0
    /\ header_crc8 = 0
    /\ footer_crc16 = 0

\* one byte goes through both monitors
FeedByte ==
    /\ crc_fed < Len(crc_input)
    /\ crc_fed' = crc_fed + 1
    /\ header_crc8' = crc8_byte(header_crc8, crc_input[crc_fed + 1])
    /\ footer_crc16' = crc16_byte(footer_crc16, crc_input[crc_fed + 1])
    /\ UNCHANGED crc_input

vars ==
    <<debug_assertions, codec_vars, frame_vars, source_vars, split_vars, tag_vars,
      writer_vars, range_vars, crc_vars>>

InitCodec ==
    /\ debug_assertions \in BOOLEAN
    /\ CodecInit
    /\ FrameIdle
    /\ SplitIdle
    /\ TagIdle
    /\ WriterIdle
    /\ RangeIdle
    /\ CrcIdle

NextCodec ==
    \/ Encode /\ UNCHANGED <<debug_assertions, frame_vars, source_vars, split_vars, tag_vars, writer_vars,
                              other_vars>>
    \/ Decode /\ UNCHANGED <<debug_assertions, frame_vars, source_vars, split_vars, tag_vars, writer_vars,
                              other_vars>>

SpecCodec == InitCodec /\ [][NextCodec]_vars

InitFrame ==
    /\ debug_assertions \in BOOLEAN
    /\ CodecIdle
    /\ FrameInit
    /\ SplitIdle
    /\ TagIdle
    /\ WriterIdle
    /\ RangeIdle
    /\ CrcIdle

NextFrame ==
    \/ NewOffsetFrame /\ UNCHANGED <<debug_assertions, codec_vars, source_vars, split_vars, tag_vars, writer_vars,
                              other_vars>>
    \/ Process /\ UNCHANGED <<debug_assertions, codec_vars, source_vars, split_vars, tag_vars, writer_vars,
                              other_vars>>

SpecFrame == InitFrame /\ [][NextFrame]_vars

SplitFrame == <<debug_assertions, codec_vars, source_vars, tag_vars, writer_vars, other_vars,
                frame_pc, frame_prev, packet, updated_buf, frame_log>>

Init ==
    /\ debug_assertions \in BOOLEAN
    /\ CodecIdle
    /\ FrameIdle
    /\ SplitInit
    /\ TagIdle
    /\ WriterIdle
    /\ RangeIdle
    /\ CrcIdle

Next ==
    \/ CheckCues /\ UNCHANGED SplitFrame
    \/ LoopEnd /\ UNCHANGED SplitFrame
    \/ BeginTrack /\ UNCHANGED SplitFrame
    \/ NextPacket /\ UNCHANGED SplitFrame
    \/ WriteMetadata /\ UNCHANGED SplitFrame
    \/ WriteAudioBuffer /\ UNCHANGED SplitFrame

Spec == Init /\ [][Next]_vars

InitTrack ==
    /\ debug_assertions \in BOOLEAN
    /\ CodecIdle
    /\ FrameIdle
    /\ SplitIdle
    /\ TagInit
    /\ WriterIdle
    /\ RangeIdle
    /\ CrcIdle

NextTrack ==
    \/ FromTags /\ UNCHANGED <<debug_assertions, codec_vars, frame_vars, source_vars, split_vars,
                              writer_vars, other_vars>>
    \/ Pathname /\ UNCHANGED <<debug_assertions, codec_vars, frame_vars, source_vars, split_vars,
                              writer_vars, other_vars>>

SpecTrack == InitTrack /\ [][NextTrack]_vars

InitWriter ==
    /\ debug_assertions \in BOOLEAN
    /\ CodecIdle
    /\ FrameIdle
    /\ SplitIdle
    /\ TagIdle
    /\ WriterInit
    /\ RangeIdle
    /\ CrcIdle

NextWriter ==
    \/ WriteFlacStreamHeader
           /\ UNCHANGED <<debug_assertions, codec_vars, frame_vars, source_vars, split_vars,
                          tag_vars, other_vars>>
    \/ WriteTrackMetadata
           /\ UNCHANGED <<debug_assertions, codec_vars, frame_vars, source_vars, split_vars,
                          tag_vars, other_vars>>

SpecWriter == InitWriter /\ [][NextWriter]_vars

InitRange ==
    /\ debug_assertions \in BOOLEAN
    /\ CodecIdle
    /\ FrameIdle
    /\ SplitIdle
    /\ TagIdle
    /\ WriterIdle
    /\ RangeInit
    /\ CrcIdle

NextRange ==
    SplitCommand
        /\ UNCHANGED <<debug_assertions, codec_vars, frame_vars, source_vars, split_vars,
                       tag_vars, writer_vars, crc_vars>>

SpecRange == InitRange /\ [][NextRange]_vars

InitCrc ==
    /\ debug_assertions \in BOOLEAN
    /\ CodecIdle
    /\ FrameIdle
    /\ SplitIdle
    /\ TagIdle
    /\ WriterIdle
    /\ RangeIdle
    /\ CrcInit

NextCrc ==
    FeedByte
        /\ UNCHANGED <<debug_assertions, codec_vars, frame_vars, source_vars, split_vars,
                       tag_vars, writer_vars, range_vars>>

SpecCrc == InitCrc /\ [][NextCrc]_vars

(***************************************************************************)
(* Reading a frame by the FLAC frame layout, for the properties below.     *)
(***************************************************************************)
\* the length of an extended-UTF8 field from its leading byte: the number of
\* leading one bits, or 1 for a byte below 0x80
FieldLen(b0) == IF b0 < 128 THEN 1 ELSE 8 - BitLen(255 - b0)

RECURSIVE FieldValueFrom(_, _, _, _)
FieldValueFrom(acc, buf, pos, left) ==
    IF left = 0 THEN acc
    ELSE FieldValueFrom(U64Shl6Or(acc, buf[pos] % 64), buf, pos + 1, left - 1)

\* the value of the sample/frame number field of a frame
FieldValue(buf) ==
    LET len == FieldLen(buf[5])
        lead == IF len = 1 THEN buf[5] ELSE buf[5] % (2 ^ (7 - len))
    IN  FieldValueFrom(U64(lead), buf, 6, len - 1)

BlockCode(buf) == buf[3] \div 16
RateCode(buf) == buf[3] % 16
BlockTailLen(buf) == IF BlockCode(buf) = 6 THEN 1 ELSE IF BlockCode(buf) = 7 THEN 2 ELSE 0
RateTailLen(buf) ==
    IF RateCode(buf) = 12 THEN 1 ELSE IF RateCode(buf) \in {13, 14} THEN 2 ELSE 0

\* the position of the header CRC-8 byte
CrcPos(buf) == 4 + FieldLen(buf[5]) + BlockTailLen(buf) + RateTailLen(buf) + 1

\* the value n of the explicit block-size tail
BlockTailValue(buf) ==
    LET at == 4 + FieldLen(buf[5]) + 1
    IN  IF BlockCode(buf) = 6 THEN buf[at] ELSE buf[at] * 256 + buf[at + 1]

HeaderCrcOk(buf) == buf[CrcPos(buf)] = crc8_bytes(0, SubSeq(buf, 1, CrcPos(buf) - 1), 1)

FooterCrcOk(buf) ==
    LET crc16 == crc16_bytes(0, SubSeq(buf, 1, Len(buf) - 2), 1)
    IN  /\ buf[Len(buf) - 1] = crc16 \div 256
        /\ buf[Len(buf)] = crc16 % 256

\* a complete frame with valid codes, a minimal-length sample number and
\* correct CRCs
WellFormed(buf) ==
    /\ Len(buf) >= 5
    /\ buf[5] < 128 \/ (buf[5] >= 192 /\ buf[5] <= 254)
    /\ Len(buf) >= CrcPos(buf) + 2
    /\ BlockCode(buf) # 0
    /\ RateCode(buf) # 15
    /\ FieldLen(buf[5]) = MinimalLen(EffectiveBits(FieldValue(buf)))
    /\ HeaderCrcOk(buf)
    /\ FooterCrcOk(buf)

\* the block sample count of the block-size table: 192 for 0b0001,
\* 576 * 2^(enc - 2) for 0b0010..0b0101, 256 * 2^(enc - 8) for 0b1000..0b1111,
\* and the explicit tail value for 0b0110 and 0b0111
TableBlockSamples(buf) ==
    LET enc == BlockCode(buf)
    IN  IF enc = 1 THEN 192
        ELSE IF enc \in 2..5 THEN 576 * 2 ^ (enc - 2)
        ELSE IF enc \in 8..15 THEN 256 * 2 ^ (enc - 8)
        ELSE BlockTailValue(buf)

RECURSIVE SumBlockSamples(_, _)
SumBlockSamples(log, n) ==
    IF n = 0 THEN U64Zero
    ELSE U64Add(SumBlockSamples(log, n - 1), U64(TableBlockSamples(log[n]))).value

Called == updated_buf.kind # "none"
Emitted == updated_buf.kind = "ok"

(***************************************************************************)
(* The codec.                                                              *)
(***************************************************************************)
\* C1: for every x in [0, 2^36), utf8_encode_be_u64(x) succeeds and
\* utf8_decode_be_u64 of its output returns (x, number of bytes encoded).
C1_RoundTrip ==
    (codec_pc # "input" /\ U64Lt(codec_input, U64Pow2(36))) =>
        /\ codec_encoded.kind = "ok"
        /\ codec_pc = "decoded" =>
            /\ codec_decoded.kind = "ok"
            /\ codec_decoded.value = codec_input
            /\ codec_decoded.n = Len(codec_encoded.bytes)

\* C2: the encoder picks the smallest form that fits: 1 byte up to 7
\* effective bits, 2 up to 11, 3 up to 16, 4 up to 21, 5 up to 26, 6 up to 31
\* and 7 up to 36, each bound inclusive.
C2_SmallestForm ==
    (codec_pc # "input" /\ EffectiveBits(codec_input) <= 36) =>
        /\ codec_encoded.kind = "ok"
        /\ Len(codec_encoded.bytes) = MinimalLen(EffectiveBits(codec_input))

\* C3: for every x in [2^36, 2^64), utf8_encode_be_u64(x) returns an error
\* result and produces no encoded bytes.
C3_UnrepresentableIsErr ==
    (codec_pc # "input" /\ ~U64Lt(codec_input, U64Pow2(36))) =>
        /\ codec_encoded.kind = "err"
        /\ codec_encoded.bytes = <<>>

(***************************************************************************)
(* The frame rewriter.                                                     *)
(***************************************************************************)
\* C4 as stated: whenever process succeeds on a well-formed frame, the
\* returned buffer is as long as the input frame.
C4_SameLength ==
    (Emitted /\ WellFormed(packet)) => Len(updated_buf.out) = Len(packet)

\* C4 as amended: whenever process succeeds, the returned buffer is as long
\* as the input frame less the width of the source's sample-number field
\* plus the width of the rewritten one.
C4_LengthFollowsNumberField ==
    Emitted =>
        Len(updated_buf.out) =
            Len(packet) - FieldLen(packet[5]) + FieldLen(updated_buf.out[5])

C4_Witness ==
    /\ Emitted
    /\ WellFormed(packet)
    /\ FieldLen(updated_buf.out[5]) < FieldLen(packet[5])
    /\ Len(updated_buf.out) < Len(packet)

\* C5: with initial_offset = 0, every well-formed source frame (correct
\* CRCs, minimal-length sample number below 2^36) is returned byte for byte.
C5_ZeroOffsetIdentity ==
    (Called /\ frame.initial_offset = Some(U64Zero) /\ WellFormed(packet)) =>
        /\ Emitted
        /\ updated_buf.out = packet

\* C6: in every emitted frame the header CRC-8 byte is the CRC-8 of the
\* output bytes before it, and the last two bytes are, big-endian, the
\* CRC-16 of all output bytes before them.
C6_CrcValid ==
    Emitted => HeaderCrcOk(updated_buf.out) /\ FooterCrcOk(updated_buf.out)

C6_Witness ==
    /\ Emitted
    /\ ~HeaderCrcOk(packet)
    /\ HeaderCrcOk(updated_buf.out) /\ FooterCrcOk(updated_buf.out)
    /\ Len(frame_log) = 2
    /\ FieldValue(updated_buf.out) # U64Zero

\* C7: initial_offset is the sample number of the first frame processed;
\* the first emitted frame carries the encoding of 0 and every later one the
\* encoding of its original number less initial_offset.
C7_NumberingStartsAtZero ==
    Emitted =>
        LET first == FieldValue(frame_log[1])
            relative == U64Sub(FieldValue(packet), first).value
            out == updated_buf.out
        IN  /\ frame.initial_offset = Some(first)
            /\ FieldValue(out) = relative
            /\ Len(frame_log) = 1 => FieldValue(out) = U64Zero
            /\ SubSeq(out, 5, 4 + FieldLen(out[5]))
                   = utf8_encode_be_u64(relative, debug_assertions).bytes

C7_Witness ==
    /\ Emitted
    /\ Len(frame_log) = 2
    /\ FieldValue(frame_log[1]) = U64(128)
    /\ FieldValue(packet) = U64(2048)
    /\ FieldValue(updated_buf.out) = U64(1920)

\* C8: for block_size_enc 0b0110 or 0b0111 with tail value n, process adds
\* n + 1 to samples_processed.
C8_ExplicitBlockSizePlusOne ==
    (Emitted /\ BlockCode(packet) \in {6, 7}) =>
        frame.samples_processed =
            U64Add(frame_prev.samples_processed, U64(BlockTailValue(packet) + 1)).value

\* C9: samples_processed is the sum, over the frames processed with success,
\* of the block sample count of the block-size table (the explicit tail
\* value for 0b0110 and 0b0111); it starts at 0 and never decreases.
C9_SamplesProcessedIsSum ==
    /\ frame.samples_processed = SumBlockSamples(frame_log, Len(frame_log))
    /\ ~Called => frame.samples_processed = U64Zero
    /\ U64Le(frame_prev.samples_processed, frame.samples_processed)

C9_Witness ==
    /\ Emitted
    /\ Len(frame_log) = 2
    /\ BlockCode(frame_log[1]) = 7
    /\ BlockCode(frame_log[2]) = 10
    /\ frame.samples_processed = U64(65535 + 1024)

(***************************************************************************)
(* The track splitter.                                                     *)
(***************************************************************************)
\* C10: the STREAMINFO written into every per-track output has an all-zero
\* MD5, total_samples equal to the value write_audio returned for that track,
\* and every other field equal to the source's STREAMINFO.
C10_StreamInfoWritten ==
    \A k \in 1..Len(files) :
        Len(files[k].content) >= 2 =>
            LET block == files[k].content[2]
            IN  /\ block.type = "STREAMINFO"
                /\ block.body.md5 = ZeroMd5
                /\ block.body.total_samples = audio_returns[k]
                /\ [block.body EXCEPT !.md5 = info.md5,
                                      !.total_samples = info.total_samples] = info

C10_Witness ==
    /\ pc = "flush"
    /\ Len(files) = 2
    /\ files[2].content[2].body.total_samples = sample_count
    /\ sample_count # U64Sub(track.end_ts, track.start_ts).value
    /\ sample_count # U64Zero
    /\ info.md5 # ZeroMd5

(***************************************************************************)
(* Tags and paths.                                                         *)
(***************************************************************************)
\* the text "[N]" for the cue indexes of the tag driver
IndexSuffix(n) ==
    IF n = 1 THEN <<"[", "1", "]">>
    ELSE IF n = 2 THEN <<"[", "2", "]">>
    ELSE <<"[", "1", "1", "]">>

\* what the tag filter is to make of one source tag for cue index n: the
\* tags kept for it (none or one)
KeptFor(tag, n) ==
    LET key == tag.key
        suffix == IndexSuffix(n)
        suffixed == /\ Len(key) >= Len(suffix)
                    /\ \A j \in 1..Len(suffix) : key[Len(key) - Len(suffix) + j] = suffix[j]
    IN  IF suffixed
        THEN <<[std_key |-> tag.std_key,
                key |-> [j \in 1..(Len(key) - Len(suffix)) |-> key[j]],
                value |-> tag.value]>>
        ELSE IF (Len(key) = 0 \/ key[Len(key)] # "]") /\ key # KeyCUESHEET /\ key # KeyLOG
        THEN <<tag>>
        ELSE <<>>

RECURSIVE KeptTags(_, _, _)
KeptTags(source_tags, n, i) ==
    IF i > Len(source_tags) THEN <<>>
    ELSE KeptFor(source_tags[i], n) \o KeptTags(source_tags, n, i + 1)

\* C15: Track::from_tags for cue index N keeps a source tag exactly when its
\* key ends with "[N]" (with that suffix stripped) or its key does not end
\* with ']' and is neither CUESHEET nor LOG (unchanged); every other tag is
\* dropped, and the kept tags keep their source order and values.
C15_TagFilter ==
    tag_pc \in {"track", "path"} =>
        tag_track.tags = KeptTags(tag_source, tag_cue.index, 1)

C15_Witness ==
    /\ tag_pc = "track"
    /\ tag_cue.index = 1
    /\ Len(tag_source) = 2
    /\ tag_source[1].key = KeyTITLE \o <<"[", "2", "]">>
    /\ tag_source[2].key = KeyTITLE \o <<"[", "1", "]">>
    /\ tag_track.tags = <<Tag(KeyTITLE, ValueString(<<"v">>))>>

\* the characters the path of a track may be made of
Whitelist ==
    Letters \cup {Digits[d] : d \in 1..10}
    \cup {" ", "_", "-", ",", ".", "!", "&", "(", ")", "[", "]", "{", "}", "<", ">"}

\* C16: every component of the path returned by Track::pathname contains
\* only whitelisted characters: a character of a tag value that is not
\* whitelisted, such as '/' or '?', appears as '_'.
C16_PathIsSanitized ==
    tag_pc = "path" =>
        \A k \in 1..Len(tag_path) :
            \A j \in 1..Len(tag_path[k]) : tag_path[k][j] \in Whitelist

(***************************************************************************)
(* The metadata prelude, read back by the FLAC metadata layout.            *)
(***************************************************************************)
\* the 24-bit length field of the block header at position p
HeaderLength(bytes, p) == bytes[p + 1] * 65536 + bytes[p + 2] * 256 + bytes[p + 3]

\* the positions of the metadata block headers in a prelude, from position p
RECURSIVE HeaderPositions(_, _)
HeaderPositions(bytes, p) ==
    IF p + 3 > Len(bytes) THEN <<>>
    ELSE <<p>> \o HeaderPositions(bytes, p + 4 + HeaderLength(bytes, p))

HeaderIsLast(bytes, p) == bytes[p] >= 128

\* C11: in every metadata prelude written, by write_flac_stream_header for
\* any list of extra blocks it accepts and by Track::write_metadata for any
\* number of pictures, exactly one metadata block header has is_last = 1 and
\* it is the header of the final block written.
C11_OneLastBlock ==
    /\ (writer_pc = "header" /\ writer_result.kind = "ok") =>
           LET at == HeaderPositions(writer_result.to, 5)
           IN  /\ Len(at) = 1 + Len(writer_blocks)
               /\ \A k \in 1..Len(at) :
                      HeaderIsLast(writer_result.to, at[k]) <=> (k = Len(at))
    /\ writer_pc = "track" =>
           /\ Len(writer_prelude) = 4 + Len(writer_track.visuals)
           /\ \A k \in 2..Len(writer_prelude) :
                  writer_prelude[k].is_last <=> (k = Len(writer_prelude))

C11_Witness ==
    /\ writer_pc = "header"
    /\ writer_result.kind = "ok"
    /\ writer_blocks = <<BlockPadding(PADDING_CHUNK_SIZE + 1), BlockStreamInfo(SimpleStreamInfo)>>
    /\ Len(HeaderPositions(writer_result.to, 5)) = 3
    /\ HeaderIsLast(writer_result.to, HeaderPositions(writer_result.to, 5)[3])

\* the STREAMINFO body that follows the marker and the first block header,
\* read by the standard layout: 20 bits sample rate, 3 bits channels - 1,
\* 5 bits bits-per-sample - 1, 36 bits total samples, 16 bytes MD5
ParsedSampleRate(bytes) == bytes[19] * 4096 + bytes[20] * 16 + (bytes[21] \div 16)
ParsedChannels(bytes) == ((bytes[21] \div 2) % 8) + 1
ParsedTotalSamples(bytes) ==
    <<0, bytes[22] % 16, bytes[23] * 256 + bytes[24], bytes[25] * 256 + bytes[26]>>
ParsedMd5(bytes) == SubSeq(bytes, 27, 42)

\* the number of channels of a Channels bit mask
ChannelCount(mask) == Cardinality({k \in 0..25 : (mask \div (2 ^ k)) % 2 = 1})

WrittenSamples(streaminfo) ==
    IF streaminfo.n_samples = NoSamples THEN U64Zero ELSE streaminfo.n_samples[1]

\* C13: for every StreamInfo with sample_rate in 1..=655350, 1..=8 channels,
\* bits_per_sample in 4..=32 and total_samples < 2^36, the 34 bytes produced
\* by write_streaminfo, parsed with the standard STREAMINFO layout, give
\* back the same md5, sample_rate, channel count and total_samples.
C13_StreamInfoRoundTrip ==
    (writer_pc = "header" /\ writer_blocks = <<>>) =>
        /\ writer_result.kind = "ok"
        /\ Len(writer_result.to) = 42
        /\ ParsedMd5(writer_result.to) = writer_info.md5
        /\ ParsedSampleRate(writer_result.to) = writer_info.sample_rate
        /\ ParsedChannels(writer_result.to) = ChannelCount(writer_info.channels)
        /\ ParsedTotalSamples(writer_result.to) = WrittenSamples(writer_info)

\* the sizes and the padding body that write_flac_stream_header produces for
\* the padding lengths in the given set
PaddingWritten(lengths) ==
    writer_pc = "header" =>
        /\ writer_blocks = <<>> =>
               /\ writer_result.kind = "ok"
               /\ Len(writer_result.to) = 4 + 4 + 34
        /\ \A length \in lengths :
               writer_blocks = <<BlockPadding(length)>> =>
                   /\ writer_result.kind = "ok"
                   /\ Len(writer_result.to) = 4 + 4 + 34 + 4 + length
                   /\ HeaderLength(writer_result.to, 43) = length
                   /\ \A i \in 47..Len(writer_result.to) : writer_result.to[i] = 0

\* C14 as stated: write_flac_stream_header writes exactly 4 + 4 + 34 bytes
\* when given no extra blocks, and exactly 4 + 4 + 34 + 4 + L bytes when
\* given one Padding block of length L, whose body is L zero bytes and whose
\* 24-bit header length field equals L, for every L.
C14_PaddingEveryLength == PaddingWritten(PaddingLengths)

\* C14 amended: the same for every L below 2^24, the lengths that the
\* 24-bit length field can hold.
C14_PaddingUpTo24Bits == PaddingWritten({length \in PaddingLengths : length < 2 ^ 24})

C14_Witness ==
    /\ writer_pc = "header"
    /\ writer_blocks = <<BlockPadding(2 * PADDING_CHUNK_SIZE + 4040)>>
    /\ writer_result.kind = "ok"
    /\ Len(writer_result.to) = 46 + 2 * PADDING_CHUNK_SIZE + 4040

(***************************************************************************)
(* The layout of a per-track output file.                                  *)
(***************************************************************************)
\* C12: every per-track output file is written in this order and no other:
\* the four bytes fLaC, one STREAMINFO block, one VORBIS_COMMENT block, one
\* PICTURE block per source visual, one PADDING block of metadata_padding
\* zero bytes (also when metadata_padding is 0), then the rewritten frames;
\* no frame byte is written before the PADDING block.
C12_FileLayout ==
    \A k \in 1..Len(files) :
        LET content == files[k].content
            n == Len(visuals)
        IN  Len(content) > 0 =>
                /\ Len(content) \in {4 + n, 5 + n}
                /\ content[1].type = "fLaC"
                /\ content[2].type = "STREAMINFO"
                /\ content[3].type = "VORBIS_COMMENT"
                /\ \A i \in 1..n : content[3 + i] = MetadataBlock("PICTURE", FALSE, visuals[i])
                /\ content[4 + n].type = "PADDING"
                /\ content[4 + n].body = metadata_padding
                /\ Len(content) = 5 + n => content[5 + n].type = "frames"
                /\ (k < Len(files) \/ pc \in {"loop", "done"}) =>
                       Len(content) = 5 + n

C12_Witness ==
    /\ pc = "loop"
    /\ Len(files) = 2
    /\ Len(visuals) = 1
    /\ metadata_padding = 0
    /\ Len(files[2].content) = 6
    /\ files[2].content[5] = MetadataBlock("PADDING", TRUE, 0)
    /\ Len(files[2].content[6].body) > 0

(***************************************************************************)
(* Track windows.                                                          *)
(***************************************************************************)
\* the cue entries that are track entries, in cue order
RECURSIVE TrackEntries(_)
TrackEntries(list) ==
    IF Len(list) = 0 THEN <<>>
    ELSE (IF list[1].index = LEAD_OUT_TRACK_NUMBER THEN <<>> ELSE <<list[1]>>)
         \o TrackEntries(Tail(list))

\* the end of the window of the cue entry at position i
WindowEnd(i) ==
    IF i = Len(cues) THEN info.total_samples ELSE cues[i + 1].start_ts

\* C17: for a cue list with ascending start_ts, split_one_file derives one
\* track per non-lead-out cue entry; the track's end_ts is the start_ts of
\* the following entry (track or lead-out), or STREAMINFO total_samples when
\* no entry follows; a lead-out entry is consumed without producing a track.
C17_TrackWindows ==
    /\ Len(files) <= Len(TrackEntries(cues))
    /\ \A k \in 1..Len(files) :
           /\ files[k].number # LEAD_OUT_TRACK_NUMBER
           /\ files[k].number = TrackEntries(cues)[k].index
    /\ (track # NoTrack /\ Len(files) > 0 /\ Len(files) <= Len(cues)) =>
           /\ track.number = cues[Len(files)].index
           /\ track.start_ts = cues[Len(files)].start_ts
           /\ track.end_ts = WindowEnd(Len(files))
    /\ outcome = "ok" => Len(files) = Len(TrackEntries(cues))

(***************************************************************************)
(* A source without cues.                                                  *)
(***************************************************************************)
\* C18: when the source has an empty cue list, split_one_file returns
\* success with an empty list of paths, creates no output file and pulls no
\* packet from the reader.
C18_EmptyCueList ==
    (Len(cues) = 0 /\ pc \notin {"start", "idle"}) =>
        /\ pc = "done"
        /\ outcome = "ok"
        /\ track_paths = <<>>
        /\ files = <<>>
        /\ reader_pos = 0

C18_Witness ==
    /\ Len(cues) = 0
    /\ pc = "done"
    /\ outcome = "ok"
    /\ Len(reader) = MaxPackets
    /\ reader_pos = 0

(***************************************************************************)
(* The split subcommand.                                                   *)
(***************************************************************************)
\* the duration of the source in milliseconds
TotalMs == (range_args.total_samples * 1000) \div range_args.sample_rate

\* a millisecond value counted from the end when negative, then clamped
Clamped(ms) ==
    LET counted == IF ms < 0 THEN TotalMs + ms ELSE ms
    IN  IF counted < 0 THEN 0 ELSE IF counted > TotalMs THEN TotalMs ELSE counted

\* C19: in the split subcommand negative values count from the end, both
\* values are clamped to [0, total_ms], the command fails without extracting
\* when the adjusted from_ms >= adjusted to_ms, and whenever
\* extract_sample_range is invoked its arguments satisfy
\* 0 <= from_sample < to_sample <= total_samples.
C19_RangeWithinSource ==
    range_pc = "done" =>
        /\ range_result.kind \in {"err", "extract"}
        /\ range_result.adjusted_from_ms = Clamped(range_args.from_ms)
        /\ range_result.adjusted_to_ms = Clamped(range_args.to_ms)
        /\ range_result.kind = "err"
               <=> Clamped(range_args.from_ms) >= Clamped(range_args.to_ms)
        /\ range_result.kind = "extract" =>
               /\ 0 <= range_result.from_sample
               /\ range_result.from_sample < range_result.to_sample
               /\ range_result.to_sample <= range_args.total_samples

(***************************************************************************)
(* The CRC engines on the check vector.                                    *)
(***************************************************************************)
\* C20 as stated: the footer CRC-16 engine (polynomial 0x8005, initial value
\* 0, no reflection, no XOR-out, fed one byte at a time) maps the nine bytes
\* 0x31..0x39 to 0xBB3D, and the header CRC-8 engine (polynomial 0x07,
\* initial value 0, no reflection, no XOR-out) maps them to 0xF4.
C20_CheckValuesAsStated ==
    (crc_input = CheckVector /\ crc_fed = Len(CheckVector)) =>
        /\ footer_crc16 = 11 * 4096 + 11 * 256 + 3 * 16 + 13
        /\ header_crc8 = 15 * 16 + 4

\* C20 amended: the footer CRC-16 engine maps the nine bytes 0x31..0x39 to
\* 0xFEE8, and the header CRC-8 engine maps them to 0xF4.
C20_CheckValues ==
    (crc_input = CheckVector /\ crc_fed = Len(CheckVector)) =>
        /\ footer_crc16 = 15 * 4096 + 14 * 256 + 14 * 16 + 8
        /\ header_crc8 = 15 * 16 + 4

C20_Witness ==
    /\ crc_input = CheckVector
    /\ crc_fed = Len(CheckVector)
    /\ header_crc8 = 15 * 16 + 4

(***************************************************************************)
(* Frames that end early, and frames with reserved codes.                  *)
(***************************************************************************)
\* the input ends inside the sync word, the descriptor, the sample number,
\* a tail, at the header CRC byte, or less than two bytes after it
EndsEarly(buf) ==
    IF Len(buf) < 5 THEN TRUE
    ELSE IF Len(buf) < 4 + FieldLen(buf[5]) THEN TRUE
    ELSE Len(buf) < CrcPos(buf) + 2

\* the input holds the header up to and including the header CRC byte, and
\* less than two bytes after it
EndsInFooter(buf) ==
    IF Len(buf) < 5 THEN FALSE
    ELSE IF Len(buf) < 4 + FieldLen(buf[5]) THEN FALSE
    ELSE Len(buf) >= CrcPos(buf) /\ Len(buf) < CrcPos(buf) + 2

\* C21: process fails the whole frame with an error result and emits no
\* frame whenever the input ends early in any step: inside the sync word, the
\* descriptor, the sample number, the block-size tail, the sample-rate tail,
\* at the header CRC byte, or when fewer than two bytes remain after the
\* header CRC byte for the footer CRC-16.
C21_EndsEarlyIsErr ==
    (Called /\ EndsEarly(packet)) =>
        /\ updated_buf.kind = "err"
        /\ updated_buf.out = <<>>

\* C22: process returns an error and emits no frame for every frame whose
\* block-size code is 0b0000 and for every frame whose sample-rate code is
\* 0b1111, whatever the other header fields are; for every other pair of
\* codes the emitted frame carries exactly the 0, 1 or 2 block-size tail
\* bytes (1 for 0b0110, 2 for 0b0111) and the 0, 1 or 2 sample-rate tail
\* bytes (1 for 0b1100, 2 for 0b1101 and 0b1110) of the source.
C22_ReservedCodesAreErr ==
    /\ (Called /\ Len(packet) >= 4 /\ (BlockCode(packet) = 0 \/ RateCode(packet) = 15)) =>
           /\ updated_buf.kind = "err"
           /\ updated_buf.out = <<>>
    /\ Emitted =>
           /\ BlockCode(packet) # 0
           /\ RateCode(packet) # 15
           /\ CrcPos(updated_buf.out) - FieldLen(updated_buf.out[5])
                  = CrcPos(packet) - FieldLen(packet[5])

(***************************************************************************)
(* What process leaves alone.                                              *)
(***************************************************************************)
\* C25: process changes only the sample/frame number bytes, the header CRC-8
\* byte and the two footer CRC-16 bytes: the sync word, the descriptor, the
\* block-size tail, the sample-rate tail and all subframe bytes appear in the
\* emitted frame unchanged and in the same relative order.
C25_OnlyNumberAndCrcsChange ==
    Emitted =>
        LET out == updated_buf.out
            fs == FieldLen(packet[5])
            fo == FieldLen(out[5])
            t == BlockTailLen(packet) + RateTailLen(packet)
        IN  /\ Len(out) = Len(packet) - fs + fo
            /\ SubSeq(out, 1, 4) = SubSeq(packet, 1, 4)
            /\ SubSeq(out, 5 + fo, 4 + fo + t) = SubSeq(packet, 5 + fs, 4 + fs + t)
            /\ SubSeq(out, 6 + fo + t, Len(out) - 2)
                   = SubSeq(packet, 6 + fs + t, Len(packet) - 2)

\* a frame with both two-byte tails and a subframe byte was emitted with a
\* shorter sample number and new CRCs
C25_Witness ==
    /\ Emitted
    /\ BlockTailLen(packet) = 2
    /\ RateTailLen(packet) = 2
    /\ Len(packet) > CrcPos(packet) + 2
    /\ FieldLen(updated_buf.out[5]) < FieldLen(packet[5])
    /\ updated_buf.out[CrcPos(updated_buf.out)] # packet[CrcPos(packet)]

\* C29: a failing process call leaves the OffsetFrame unchanged:
\* samples_processed and initial_offset keep the values they had before the
\* call, and initial_offset stays unset when the failing frame was the first;
\* once initial_offset is set, no later call changes it.
C29_FailureKeepsState ==
    /\ (Called /\ updated_buf.kind = "err") => frame = frame_prev
    /\ (Called /\ frame_prev.initial_offset # NoOffset) =>
           frame.initial_offset = frame_prev.initial_offset

(***************************************************************************)
(* The packets of a split: which track each went to.                       *)
(***************************************************************************)
\* the rewritten frames of the packets pulled for file k, concatenated in the
\* order they were pulled, from the i-th pulled packet on
RECURSIVE TrackFrames(_, _)
TrackFrames(k, i) ==
    IF i > Len(pulled) THEN <<>>
    ELSE (IF pulled[i].file = k /\ pulled[i].kind = "ok" THEN pulled[i].out ELSE <<>>)
         \o TrackFrames(k, i + 1)

\* the output of a track is complete: it ends with the audio section
Complete(content) ==
    /\ Len(content) >= 3
    /\ content[Len(content)].type = "frames"

\* the packet reaches the end of the window it was pulled for
Stops(p) == U64Le(p.end_ts, U64Add(p.ts, p.dur).value)

\* C23: if the frame rewriter fails on a packet of track k, split_one_file
\* returns an error; no metadata or audio byte has been written to track k's
\* output file, the files of the tracks before k are complete and unchanged,
\* and no track after k is produced.
C23_FailureIsAtomic ==
    (Len(pulled) > 0 /\ pulled[Len(pulled)].kind = "err") =>
        LET k == pulled[Len(pulled)].file
        IN  /\ pc = "done"
            /\ outcome = "err"
            /\ Len(files) = k
            /\ files[k].content = <<>>
            /\ Len(track_paths) = k - 1
            /\ \A j \in 1..(k - 1) :
                   /\ Complete(files[j].content)
                   /\ files[j].content[Len(files[j].content)].body = TrackFrames(j, 1)
                   /\ on_disk(files, files[j].path) = files[j].content

\* C24: for a source with contiguous packets from timestamp 0 and ascending
\* cues, every packet pulled while writing a track has a timestamp at or
\* after the track's start_ts, so the assertion never fires; this holds for
\* the first track too, also when its cue starts after 0.
C24_PacketsStartInTrack ==
    \A i \in 1..Len(pulled) :
        /\ U64Le(pulled[i].start_ts, pulled[i].ts)
        /\ pulled[i].kind # "assert"

C27_InOrderAndOverlapping ==
    /\ Len(pulled) = reader_pos
    /\ \A i \in 1..Len(pulled) :
           /\ pulled[i].ts = reader[i].ts
           /\ i > 1 => pulled[i - 1].file <= pulled[i].file
           /\ pulled[i].kind = "ok" =>
                  /\ U64Lt(pulled[i].ts, pulled[i].end_ts)
                  /\ U64Lt(pulled[i].start_ts, U64Add(pulled[i].ts, pulled[i].dur).value)

\* Track::from_tags ended in a panic
FromTagsPanicked ==
    /\ pc = "done"
    /\ outcome = "panic"
    /\ pulled = <<>> \/ pulled[Len(pulled)].kind = "ok"

\* C28: every Track that split_one_file builds has start_ts <= end_ts, so
\* the subtraction end_ts - cue.start_ts never underflows: for every
\* ascending cue list and every total_samples value, also total_samples = 0
\* with no lead-out entry.
C28_WindowsAreOrdered ==
    /\ ~FromTagsPanicked
    /\ track # NoTrack => U64Le(track.start_ts, track.end_ts)

\* C30: for every finite packet source write_audio ends: it returns
\* Ok(samples_processed) right after the first packet with ts + dur >= end_ts,
\* having processed at least one packet, or it returns an error when the
\* source is used up or a frame fails before that point; it never reads a
\* packet after the one that met the stop condition.
C30_WriteAudioEnds ==
    /\ \A i \in 1..Len(pulled) :
           /\ pulled[i].kind \in {"ok", "err"}
           /\ (i < Len(pulled) /\ pulled[i + 1].file = pulled[i].file) =>
                  (pulled[i].kind = "ok" /\ ~Stops(pulled[i]))
    /\ \A k \in 1..Len(audio_returns) :
           \E i \in 1..Len(pulled) :
               /\ pulled[i].file = k
               /\ pulled[i].kind = "ok"
               /\ Stops(pulled[i])
    /\ (pc = "done" /\ pulled # <<>> /\ pulled[Len(pulled)].file = Len(files)
            /\ pulled[Len(pulled)].kind = "ok" /\ ~Stops(pulled[Len(pulled)])) =>
           (outcome = "err" /\ reader_pos = Len(reader))
    /\ (pc = "done" /\ outcome = "ok") => Len(audio_returns) = Len(files)

=============================================================================
